---- MODULE Spec2Model ----
(***************************************************************************)
(* Trend engine of the Nifty sectoral scanner: the ADX / DI series and the *)
(* Chaikin money flow of indicators.py, the per-sector trend record of     *)
(* trend_analysis.calculate_trend_indicators and the ranking of            *)
(* trend_analysis.rank_by_trend_strength.                                  *)
(*                                                                         *)
(* Numbers.  A float is modelled as an extended rational <<n, d>> in       *)
(* lowest terms with d >= 0: d > 0 is the number n/d, <<0,0>> is NaN,      *)
(* <<1,0>> is +inf and <<-1,0>> is -inf.  Arithmetic is exact (rounding of *)
(* IEEE doubles is not modelled); NaN and inf propagate as in numpy.       *)
(* Python's None is the empty tuple.                                       *)
(***************************************************************************)
EXTENDS Integers, Sequences, FiniteSets, TLC

----------------------------------------------------------------------------
(* Extended rationals *)

None == <<>>

NaN == <<0, 0>>

RECURSIVE GCD(_, _)
GCD(a, b) == IF b = 0 THEN a ELSE GCD(b, a % b)

IAbs(i) == IF i < 0 THEN -i ELSE i

Sgn(i) == IF i < 0 THEN -1 ELSE IF i > 0 THEN 1 ELSE 0

Norm(n, d) ==
    IF d = 0 THEN <<Sgn(n), 0>>
    ELSE LET g == GCD(IAbs(n), IAbs(d))
             s == IF d < 0 THEN -1 ELSE 1
         IN  <<(s * n) \div g, (s * d) \div g>>

R(i) == <<i, 1>>

IsNaN(x) == x = NaN

IsNum(x) == x # None /\ x # NaN

FNeg(x) == <<-x[1], x[2]>>

\* sums are formed over the least common denominator, which keeps the
\* integers small
FAdd(x, y) ==
    IF x[2] = 0 /\ y[2] = 0
    THEN IF x = y THEN x ELSE NaN
    ELSE IF x[2] = 0 THEN x
    ELSE IF y[2] = 0 THEN y
    ELSE LET g == GCD(x[2], y[2])
         IN  Norm(x[1] * (y[2] \div g) + y[1] * (x[2] \div g), (x[2] \div g) * y[2])

FSub(x, y) == FAdd(x, FNeg(y))

FMul(x, y) == Norm(x[1] * y[1], x[2] * y[2])

FDiv(x, y) ==
    Norm(x[1] * y[2] * (IF y[1] < 0 THEN -1 ELSE 1), x[2] * IAbs(y[1]))

FAbs(x) == <<IAbs(x[1]), x[2]>>

\* x < y as IEEE compares: false when either side is NaN
FLt(x, y) ==
    /\ ~IsNaN(x)
    /\ ~IsNaN(y)
    /\ IF x[2] = 0 \/ y[2] = 0 THEN x[1] * y[2] < y[1] * x[2] \/ (x[2] = y[2] /\ x[1] < y[1])
       ELSE LET g == GCD(x[2], y[2])
            IN  x[1] * (y[2] \div g) < y[1] * (x[2] \div g)

FGt(x, y) == FLt(y, x)

FEq(x, y) == ~IsNaN(x) /\ ~IsNaN(y) /\ x = y

FGe(x, y) == FGt(x, y) \/ FEq(x, y)

FLe(x, y) == FLt(x, y) \/ FEq(x, y)

----------------------------------------------------------------------------
(* pandas Series primitives.  A Series is a sequence of numbers; a        *)
(* DataFrame is a sequence of bars [High, Low, Close, Volume].            *)

\* materialise a series (the sequence operators build an explicit tuple)
Mat(s) == s \o <<>>

Col(df, c) == Mat([i \in 1..Len(df) |-> df[i][c]])

\* Series.diff(): first element NaN
Diff(s) == Mat([i \in 1..Len(s) |-> IF i = 1 THEN NaN ELSE FSub(s[i], s[i - 1])])

\* Series.shift(): first element NaN
Shift(s) == Mat([i \in 1..Len(s) |-> IF i = 1 THEN NaN ELSE s[i - 1]])

\* s[s < 0] = 0 : NaN compares false and stays
ClipNegative(s) == Mat([i \in 1..Len(s) |-> IF FLt(s[i], R(0)) THEN R(0) ELSE s[i]])

SAbs(s) == Mat([i \in 1..Len(s) |-> FAbs(s[i])])

SSub(a, b) == Mat([i \in 1..Len(a) |-> FSub(a[i], b[i])])

SAdd(a, b) == Mat([i \in 1..Len(a) |-> FAdd(a[i], b[i])])

SMul(a, b) == Mat([i \in 1..Len(a) |-> FMul(a[i], b[i])])

SDiv(a, b) == Mat([i \in 1..Len(a) |-> FDiv(a[i], b[i])])

SScale(k, a) == Mat([i \in 1..Len(a) |-> FMul(R(k), a[i])])

\* Series.replace(0, nan)
ReplaceZero(s) == Mat([i \in 1..Len(s) |-> IF s[i] = R(0) THEN NaN ELSE s[i]])

\* Series.fillna(0)
FillNa(s) == Mat([i \in 1..Len(s) |-> IF IsNaN(s[i]) THEN R(0) ELSE s[i]])

RECURSIVE SumRange(_, _, _)
SumRange(s, lo, hi) == IF lo > hi THEN R(0) ELSE FAdd(SumRange(s, lo, hi - 1), s[hi])

\* Series.rolling(window).sum(): min_periods = window, so the value is NaN
\* until the window is full and whenever the window holds a NaN
RollingSum(s, window) ==
    Mat([i \in 1..Len(s) |->
            IF i < window \/ (\E j \in (i - window + 1)..i : IsNaN(s[j]))
            THEN NaN
            ELSE SumRange(s, i - window + 1, i)])

\* Series.rolling(window).mean()
RollingMean(s, window) ==
    LET sums == RollingSum(s, window)
    IN  Mat([i \in 1..Len(s) |-> FDiv(sums[i], R(window))])

\* max / min of two numbers skipping NaN (pandas skipna=True)
NanMax2(x, y) == IF IsNaN(x) THEN y ELSE IF IsNaN(y) THEN x ELSE IF FLt(x, y) THEN y ELSE x

NanMin2(x, y) == IF IsNaN(x) THEN y ELSE IF IsNaN(y) THEN x ELSE IF FLt(y, x) THEN y ELSE x

\* pd.concat([a, b, c], axis=1).max(axis=1)
RowMax3(a, b, c) == Mat([i \in 1..Len(a) |-> NanMax2(NanMax2(a[i], b[i]), c[i])])

RECURSIVE SeriesMax(_)
SeriesMax(s) == IF Len(s) = 0 THEN NaN ELSE NanMax2(SeriesMax(Tail(s)), Head(s))

RECURSIVE SeriesMin(_)
SeriesMin(s) == IF Len(s) = 0 THEN NaN ELSE NanMin2(SeriesMin(Tail(s)), Head(s))

\* Series.tail(n)
TailN(s, n) == IF Len(s) <= n THEN s ELSE SubSeq(s, Len(s) - n + 1, Len(s))

\* Series.iloc[-1]
Last(s) == s[Len(s)]

\* df.iloc[:-k] for k >= 1
DropLast(df, k) == SubSeq(df, 1, Len(df) - k)

----------------------------------------------------------------------------
(* indicators.py *)

\* period=14 at the call in calculate_trend_indicators
ADX_PERIOD == 14

\* period=21 at the calls in calculate_trend_indicators
CMF_PERIOD == 21

\* the ADX series with an undefined DX counted as 0
CalculateAdxSeriesFilled(df, period) ==
    IF Len(df) < period + 1 THEN <<None, None, None>>
    ELSE
    LET high     == Col(df, "High")
        low      == Col(df, "Low")
        close    == Col(df, "Close")
        plus_dm  == ClipNegative(Diff(high))
        minus_dm == ClipNegative(SScale(-1, Diff(low)))
        tr1      == SSub(high, low)
        tr2      == SAbs(SSub(high, Shift(close)))
        tr3      == SAbs(SSub(low, Shift(close)))
        tr       == RowMax3(tr1, tr2, tr3)
        atr      == RollingMean(tr, period)
        plus_di  == SScale(100, SDiv(RollingMean(plus_dm, period), atr))
        minus_di == SScale(100, SDiv(RollingMean(minus_dm, period), atr))
        dx       == FillNa(SDiv(SScale(100, SAbs(SSub(plus_di, minus_di))),
                                SAdd(plus_di, minus_di)))
        adx      == RollingMean(dx, period)
    IN  <<adx, plus_di, minus_di>>

\* the ADX series with the two directional movements exchanged
CalculateAdxSeriesSwapped(df, period) ==
    IF Len(df) < period + 1 THEN <<None, None, None>>
    ELSE
    LET high     == Col(df, "High")
        low      == Col(df, "Low")
        close    == Col(df, "Close")
        plus_dm  == ClipNegative(SScale(-1, Diff(low)))
        minus_dm == ClipNegative(Diff(high))
        tr1      == SSub(high, low)
        tr2      == SAbs(SSub(high, Shift(close)))
        tr3      == SAbs(SSub(low, Shift(close)))
        tr       == RowMax3(tr1, tr2, tr3)
        atr      == RollingMean(tr, period)
        plus_di  == SScale(100, SDiv(RollingMean(plus_dm, period), atr))
        minus_di == SScale(100, SDiv(RollingMean(minus_dm, period), atr))
        dx       == SDiv(SScale(100, SAbs(SSub(plus_di, minus_di))), SAdd(plus_di, minus_di))
        adx      == RollingMean(dx, period)
    IN  <<adx, plus_di, minus_di>>

\* calculate_adx_series: <<adx, plus_di, minus_di>>, or three None
CalculateAdxSeries(df, period) ==
    IF Len(df) < period + 1 THEN <<None, None, None>>
    ELSE
    LET high     == Col(df, "High")
        low      == Col(df, "Low")
        close    == Col(df, "Close")
        plus_dm  == ClipNegative(Diff(high))
        minus_dm == ClipNegative(SScale(-1, Diff(low)))
        tr1      == SSub(high, low)
        tr2      == SAbs(SSub(high, Shift(close)))
        tr3      == SAbs(SSub(low, Shift(close)))
        tr       == RowMax3(tr1, tr2, tr3)
        atr      == RollingMean(tr, period)
        plus_di  == SScale(100, SDiv(RollingMean(plus_dm, period), atr))
        minus_di == SScale(100, SDiv(RollingMean(minus_dm, period), atr))
        dx       == SDiv(SScale(100, SAbs(SSub(plus_di, minus_di))), SAdd(plus_di, minus_di))
        adx      == RollingMean(dx, period)
    IN  <<adx, plus_di, minus_di>>

\* calculate_cmf: the latest Chaikin money flow, or None
CalculateCmf(df, period) ==
    IF Len(df) < period THEN None
    ELSE
    LET high          == Col(df, "High")
        low           == Col(df, "Low")
        close         == Col(df, "Close")
        volume        == Col(df, "Volume")
        high_low_diff == ReplaceZero(SSub(high, low))
        mf_multiplier == FillNa(SDiv(SSub(SSub(close, low), SSub(high, close)), high_low_diff))
        mf_volume     == SMul(mf_multiplier, volume)
        cmf_numerator == RollingSum(mf_volume, period)
        cmf_denominator == ReplaceZero(RollingSum(volume, period))
        cmf           == SDiv(cmf_numerator, cmf_denominator)
    IN  IF Len(cmf) # 0 /\ ~IsNaN(cmf[Len(cmf)]) THEN cmf[Len(cmf)] ELSE None

----------------------------------------------------------------------------
(* indicators.py: the other indicators.  A price series is a sequence of  *)
(* numbers, a DataFrame a sequence of bars.                                *)

\* delta.where(delta > 0, 0): NaN compares false and becomes 0
WherePositive(s) == Mat([i \in 1..Len(s) |-> IF FGt(s[i], R(0)) THEN s[i] ELSE R(0)])

\* delta.where(delta < 0, 0)
WhereNegative(s) == Mat([i \in 1..Len(s) |-> IF FLt(s[i], R(0)) THEN s[i] ELSE R(0)])

SNeg(s) == Mat([i \in 1..Len(s) |-> FNeg(s[i])])

\* scalar - Series, scalar + Series, scalar / Series
KSub(k, s) == Mat([i \in 1..Len(s) |-> FSub(R(k), s[i])])

KAdd(k, s) == Mat([i \in 1..Len(s) |-> FAdd(R(k), s[i])])

KDiv(k, s) == Mat([i \in 1..Len(s) |-> FDiv(R(k), s[i])])

\* Series.rolling(window).min() / .max()
RollingMin(s, window) ==
    Mat([i \in 1..Len(s) |->
           IF i < window \/ \E j \in (i - window + 1)..i : IsNaN(s[j]) THEN NaN
           ELSE SeriesMin(SubSeq(s, i - window + 1, i))])

RollingMax(s, window) ==
    Mat([i \in 1..Len(s) |->
           IF i < window \/ \E j \in (i - window + 1)..i : IsNaN(s[j]) THEN NaN
           ELSE SeriesMax(SubSeq(s, i - window + 1, i))])

RECURSIVE Ewm(_, _)
\* Series.ewm(span=span, adjust=False).mean(): the first element seeds the
\* recursion, alpha = 2 / (span + 1)
Ewm(s, span) ==
    IF Len(s) = 0 THEN <<>>
    ELSE IF Len(s) = 1 THEN <<s[1]>>
    ELSE LET prev  == Ewm(SubSeq(s, 1, Len(s) - 1), span)
             alpha == Norm(2, span + 1)
         IN  Append(prev, FAdd(FMul(alpha, s[Len(s)]),
                               FMul(FSub(R(1), alpha), prev[Len(prev)])))

\* calculate_rsi with gain and loss exchanged
CalculateRsiSwapped(series, period) ==
    IF Len(series) < period + 1 THEN None
    ELSE
    LET delta == Diff(series)
        gain  == RollingMean(WherePositive(delta), period)
        loss  == RollingMean(SNeg(WhereNegative(delta)), period)
        rs    == SDiv(loss, gain)
        rsi   == KSub(100, KDiv(100, KAdd(1, rs)))
    IN  rsi

\* calculate_rsi: the RSI series, or None
CalculateRsi(series, period) ==
    IF Len(series) < period + 1 THEN None
    ELSE
    LET delta == Diff(series)
        gain  == RollingMean(WherePositive(delta), period)
        loss  == RollingMean(SNeg(WhereNegative(delta)), period)
        rs    == SDiv(gain, loss)
        rsi   == KSub(100, KDiv(100, KAdd(1, rs)))
    IN  rsi

\* calculate_atr: the latest ATR, or None
CalculateAtr(df, period) ==
    IF Len(df) < period + 1 THEN None
    ELSE
    LET high  == Col(df, "High")
        low   == Col(df, "Low")
        close == Col(df, "Close")
        tr1   == SSub(high, low)
        tr2   == SAbs(SSub(high, Shift(close)))
        tr3   == SAbs(SSub(low, Shift(close)))
        tr    == RowMax3(tr1, tr2, tr3)
        atr   == RollingMean(tr, period)
    IN  IF Len(atr) # 0 THEN atr[Len(atr)] ELSE None

\* calculate_adx clipping with Series.where, which turns the leading NaN into 0
CalculateAdxWhere(df, period) ==
    IF Len(df) < period + 1 THEN None
    ELSE
    LET high     == Col(df, "High")
        low      == Col(df, "Low")
        close    == Col(df, "Close")
        plus_dm  == WherePositive(Diff(high))
        minus_dm == WherePositive(SNeg(Diff(low)))
        tr1      == SSub(high, low)
        tr2      == SAbs(SSub(high, Shift(close)))
        tr3      == SAbs(SSub(low, Shift(close)))
        tr       == RowMax3(tr1, tr2, tr3)
        atr      == RollingMean(tr, period)
        plus_di  == SScale(100, SDiv(RollingMean(plus_dm, period), atr))
        minus_di == SScale(100, SDiv(RollingMean(minus_dm, period), atr))
        dx       == SDiv(SScale(100, SAbs(SSub(plus_di, minus_di))), SAdd(plus_di, minus_di))
        adx      == RollingMean(dx, period)
    IN  IF Len(adx) # 0 /\ ~IsNaN(adx[Len(adx)]) THEN adx[Len(adx)] ELSE None

\* calculate_adx: the latest ADX, or None
CalculateAdx(df, period) ==
    IF Len(df) < period + 1 THEN None
    ELSE
    LET high     == Col(df, "High")
        low      == Col(df, "Low")
        close    == Col(df, "Close")
        plus_dm  == ClipNegative(Diff(high))
        minus_dm == ClipNegative(SNeg(Diff(low)))
        tr1      == SSub(high, low)
        tr2      == SAbs(SSub(high, Shift(close)))
        tr3      == SAbs(SSub(low, Shift(close)))
        tr       == RowMax3(tr1, tr2, tr3)
        atr      == RollingMean(tr, period)
        plus_di  == SScale(100, SDiv(RollingMean(plus_dm, period), atr))
        minus_di == SScale(100, SDiv(RollingMean(minus_dm, period), atr))
        dx       == SDiv(SScale(100, SAbs(SSub(plus_di, minus_di))), SAdd(plus_di, minus_di))
        adx      == RollingMean(dx, period)
    IN  IF Len(adx) # 0 /\ ~IsNaN(adx[Len(adx)]) THEN adx[Len(adx)] ELSE None

\* calculate_stochastic: the latest %K, or None
CalculateStochastic(df, period) ==
    IF Len(df) < period THEN None
    ELSE
    LET low_min  == RollingMin(Col(df, "Low"), period)
        high_max == RollingMax(Col(df, "High"), period)
        stoch_k  == SScale(100, SDiv(SSub(Col(df, "Close"), low_min), SSub(high_max, low_min)))
    IN  IF Len(stoch_k) # 0 /\ ~IsNaN(stoch_k[Len(stoch_k)]) THEN stoch_k[Len(stoch_k)]
        ELSE None

\* calculate_vwap over the whole frame instead of its tail
CalculateVwapWholeFrame(df, lookback) ==
    IF Len(df) < lookback THEN None
    ELSE
    LET df_temp       == df
        typical_price == SDiv(SAdd(SAdd(Col(df_temp, "High"), Col(df_temp, "Low")),
                                   Col(df_temp, "Close")),
                              [i \in 1..Len(df_temp) |-> R(3)])
        weighted      == SMul(typical_price, Col(df_temp, "Volume"))
        vwap          == FDiv(SumRange(weighted, 1, Len(weighted)),
                              SumRange(Col(df_temp, "Volume"), 1, Len(df_temp)))
    IN  IF ~IsNaN(vwap) THEN vwap ELSE None

\* calculate_vwap: the VWAP of the last lookback bars, or None
CalculateVwap(df, lookback) ==
    IF Len(df) < lookback THEN None
    ELSE
    LET df_temp       == TailN(df, lookback)
        typical_price == SDiv(SAdd(SAdd(Col(df_temp, "High"), Col(df_temp, "Low")),
                                   Col(df_temp, "Close")),
                              [i \in 1..Len(df_temp) |-> R(3)])
        weighted      == SMul(typical_price, Col(df_temp, "Volume"))
        vwap          == FDiv(SumRange(weighted, 1, Len(weighted)),
                              SumRange(Col(df_temp, "Volume"), 1, Len(df_temp)))
    IN  IF ~IsNaN(vwap) THEN vwap ELSE None

\* calculate_sma: the latest simple moving average, or None
CalculateSma(series, period) ==
    IF Len(series) < period THEN None
    ELSE
    LET sma == RollingMean(series, period)
    IN  IF Len(sma) # 0 /\ ~IsNaN(sma[Len(sma)]) THEN sma[Len(sma)] ELSE None

\* calculate_ema: the latest exponential moving average, or None
CalculateEma(series, period) ==
    IF Len(series) < period THEN None
    ELSE
    LET ema == Ewm(series, period)
    IN  IF Len(ema) # 0 /\ ~IsNaN(ema[Len(ema)]) THEN ema[Len(ema)] ELSE None

\* sample variance (ddof = 1) of s[lo..hi]; 0/0 = NaN for a single value
Variance(s, lo, hi) ==
    LET n    == hi - lo + 1
        mean == FDiv(SumRange(s, lo, hi), R(n))
        dev2 == [i \in 1..Len(s) |-> FMul(FSub(s[i], mean), FSub(s[i], mean))]
    IN  FDiv(SumRange(dev2, lo, hi), R(n - 1))

\* the square of Series.rolling(window).std()
RollingVar(s, window) ==
    Mat([i \in 1..Len(s) |->
           IF i < window \/ \E j \in (i - window + 1)..i : IsNaN(s[j]) THEN NaN
           ELSE Variance(s, i - window + 1, i)])

\* the number p + q * sqrt(v) for rationals p, q and a variance v > 0; a
\* rational when q = 0 or v = 0
Surd(p, q, v) == IF q = R(0) \/ v = R(0) THEN p ELSE <<p, q, v>>

\* calculate_bollinger_bands: <<middle_band, upper_band, lower_band, bb_width,
\* bb_position>>, or five None.  The standard deviation is kept as the square
\* root of the rolling variance.
CalculateBollingerBands(series, period, std_dev) ==
    IF Len(series) < period THEN <<None, None, None, None, None>>
    ELSE
    LET middle_band == RollingMean(series, period)
        var         == RollingVar(series, period)
        defined(i)  == ~IsNaN(middle_band[i]) /\ ~IsNaN(var[i])
        flat(i)     == var[i] = R(0) \/ std_dev = 0
        upper_band  == Mat([i \in 1..Len(series) |->
                              IF ~defined(i) THEN NaN
                              ELSE Surd(middle_band[i], R(std_dev), var[i])])
        lower_band  == Mat([i \in 1..Len(series) |->
                              IF ~defined(i) THEN NaN
                              ELSE Surd(middle_band[i], R(-std_dev), var[i])])
        bb_width    == Mat([i \in 1..Len(series) |->
                              IF ~defined(i) THEN NaN
                              ELSE IF flat(i) THEN FMul(FDiv(R(0), middle_band[i]), R(100))
                              ELSE IF middle_band[i] = R(0) THEN <<1, 0>>
                              ELSE Surd(R(0), FDiv(R(200 * std_dev), middle_band[i]), var[i])])
        bb_position == Mat([i \in 1..Len(series) |->
                              IF ~defined(i) \/ flat(i) THEN NaN
                              ELSE Surd(R(50),
                                        FDiv(FMul(R(50), FSub(series[i], middle_band[i])),
                                             FMul(R(std_dev), var[i])),
                                        var[i])])
    IN  <<middle_band, upper_band, lower_band, bb_width, bb_position>>

\* Series.mean() of a series without NaN
SeriesMean(s) == FDiv(SumRange(s, 1, Len(s)), R(Len(s)))

\* the volume band with inclusive thresholds
VolumeClassInclusive(vol_ratio) ==
    IF FGe(vol_ratio, R(2)) THEN <<"GREEN", "Very High">>
    ELSE IF FGe(vol_ratio, Norm(3, 2)) THEN <<"YELLOW", "High">>
    ELSE IF FGe(vol_ratio, Norm(4, 5)) THEN <<"WHITE", "Normal">>
    ELSE IF FGe(vol_ratio, Norm(1, 2)) THEN <<"ORANGE", "Low">>
    ELSE <<"RED", "Very Low">>

\* lines 286-296: the volume band
VolumeClass(vol_ratio) ==
    IF FGt(vol_ratio, R(2)) THEN <<"GREEN", "Very High">>
    ELSE IF FGt(vol_ratio, Norm(3, 2)) THEN <<"YELLOW", "High">>
    ELSE IF FGt(vol_ratio, Norm(4, 5)) THEN <<"WHITE", "Normal">>
    ELSE IF FGt(vol_ratio, Norm(1, 2)) THEN <<"ORANGE", "Low">>
    ELSE <<"RED", "Very Low">>

\* calculate_volume_ratio: <<vol_ratio, vol_class>>, or <<None, "N/A">>
CalculateVolumeRatio(df, period) ==
    IF Len(df) < period + 1 THEN <<None, "N/A">>
    ELSE
    LET current_volume == Last(Col(df, "Volume"))
        avg_volume     == SeriesMean(TailN(Col(df, "Volume"), period))
    IN  IF avg_volume = R(0) THEN <<None, "N/A">>
        ELSE LET vol_ratio == FDiv(current_volume, avg_volume)
             IN  <<vol_ratio, VolumeClass(vol_ratio)>>

\* calculate_macd: <<macd_line, signal_line, histogram>> at the latest bar,
\* or three None
CalculateMacd(series, fast, slow, signal) ==
    IF Len(series) < slow + signal THEN <<None, None, None>>
    ELSE
    LET ema_fast    == Ewm(series, fast)
        ema_slow    == Ewm(series, slow)
        macd_line   == SSub(ema_fast, ema_slow)
        signal_line == Ewm(macd_line, signal)
        histogram   == SSub(macd_line, signal_line)
    IN  <<IF Len(macd_line) # 0 THEN Last(macd_line) ELSE None,
          IF Len(signal_line) # 0 THEN Last(signal_line) ELSE None,
          IF Len(histogram) # 0 THEN Last(histogram) ELSE None>>

\* calculate_momentum
CalculateMomentum(series, period) ==
    IF Len(series) < period + 1 THEN None
    ELSE FSub(series[Len(series)], series[Len(series) - period])

\* calculate_roc without the test of line 408
CalculateRocUnguarded(series, period) ==
    IF Len(series) < period + 1 THEN None
    ELSE
    LET current  == series[Len(series)]
        previous == series[Len(series) - period]
    IN  FMul(FDiv(FSub(current, previous), previous), R(100))

\* calculate_roc
CalculateRoc(series, period) ==
    IF Len(series) < period + 1 THEN None
    ELSE
    LET current  == series[Len(series)]
        previous == series[Len(series) - period]
    IN  IF previous = R(0) THEN None
        ELSE FMul(FDiv(FSub(current, previous), previous), R(100))

RECURSIVE ObvAdding(_, _, _)
\* the scan of calculate_obv adding the volume of every bar
ObvAdding(df, i, obv) ==
    IF i > Len(df) THEN obv
    ELSE ObvAdding(df, i + 1, Append(obv, FAdd(obv[i - 1], df[i].Volume)))

\* calculate_obv ignoring the direction of the close
CalculateObvUnsigned(df) ==
    IF Len(df) < 2 THEN None ELSE ObvAdding(df, 2, <<df[1].Volume>>)

RECURSIVE ObvLoop(_, _, _)
\* indicators.py lines 433-439: the loop from bar i on (1-based), obv filled up to i - 1
ObvLoop(df, i, obv) ==
    IF i > Len(df) THEN obv
    ELSE ObvLoop(df, i + 1,
                 Append(obv,
                        IF FGt(df[i].Close, df[i - 1].Close) THEN FAdd(obv[i - 1], df[i].Volume)
                        ELSE IF FLt(df[i].Close, df[i - 1].Close)
                             THEN FSub(obv[i - 1], df[i].Volume)
                             ELSE obv[i - 1]))

\* calculate_obv: the OBV series, or None
CalculateObv(df) ==
    IF Len(df) < 2 THEN None ELSE ObvLoop(df, 2, <<df[1].Volume>>)


----------------------------------------------------------------------------
(* trend_analysis.calculate_trend_indicators, block by block.  A string   *)
(* that starts with an emoji is the pair <<emoji, text>>.                  *)

\* the scaling without the max > min guard: 0/0 when the window is constant
NormAdxUnguarded(recent_adx) ==
    LET current_adx == Last(recent_adx)
        adx_min     == SeriesMin(recent_adx)
        adx_max     == SeriesMax(recent_adx)
    IN  FMul(FDiv(FSub(current_adx, adx_min), FSub(adx_max, adx_min)), R(100))

\* lines 43-46: min-max scaling of the current ADX over the window
NormAdx(recent_adx) ==
    LET current_adx == Last(recent_adx)
        adx_min     == SeriesMin(recent_adx)
        adx_max     == SeriesMax(recent_adx)
    IN  IF FGt(adx_max, adx_min)
        THEN FMul(FDiv(FSub(current_adx, adx_min), FSub(adx_max, adx_min)), R(100))
        ELSE R(50)

\* the ADX trend with inclusive thresholds
AdxTrendInclusive(recent_adx) ==
    LET adx_trend_value == FSub(Last(recent_adx), recent_adx[1])
    IN  IF FGe(adx_trend_value, R(2)) THEN <<"GREEN", "Increasing">>
        ELSE IF FLe(adx_trend_value, R(-2)) THEN <<"RED", "Weakening">>
        ELSE <<"WHITE", "Flat">>

\* lines 48-58: <<emoji, text>> of the ADX trend
AdxTrend(recent_adx) ==
    LET adx_trend_value == FSub(Last(recent_adx), recent_adx[1])
    IN  IF FGt(adx_trend_value, R(2)) THEN <<"GREEN", "Increasing">>
        ELSE IF FLt(adx_trend_value, R(-2)) THEN <<"RED", "Weakening">>
        ELSE <<"WHITE", "Flat">>

\* lines 63-75: display band of the DI spread
DiEmoji(di_spread) ==
    IF FGt(di_spread, R(20)) THEN "GREEN"
    ELSE IF FGt(di_spread, R(10)) THEN "YELLOW"
    ELSE IF FGt(di_spread, R(0)) THEN "WHITE"
    ELSE IF FGt(di_spread, R(-10)) THEN "WHITE"
    ELSE IF FGt(di_spread, R(-20)) THEN "ORANGE"
    ELSE "RED"

\* the trend strength with inclusive thresholds
TrendStrengthInclusive(current_adx) ==
    IF FGe(current_adx, R(25)) THEN "Strong"
    ELSE IF FGe(current_adx, R(20)) THEN "Moderate"
    ELSE "Weak"

\* lines 77-83
TrendStrength(current_adx) ==
    IF FGt(current_adx, R(25)) THEN "Strong"
    ELSE IF FGt(current_adx, R(20)) THEN "Moderate"
    ELSE "Weak"

\* truth value of `if cmf:` for a float or None
Truthy(x) == x # None /\ x # R(0)

RECURSIVE Keep(_)
\* lines 90-95: the samples the loop appends, in call order
Keep(returns) ==
    IF Len(returns) = 0 THEN <<>>
    ELSE (IF Truthy(Head(returns)) THEN <<Head(returns)>> ELSE <<>>) \o Keep(Tail(returns))

\* lines 97-114: <<emoji, text>> of the CMF trend
CmfTrend(cmf_value, cmf_series) ==
    IF cmf_value # None
    THEN IF Len(cmf_series) >= 2
         THEN LET cmf_trend_value == FSub(Last(cmf_series), cmf_series[1])
              IN  IF FGt(cmf_trend_value, Norm(5, 100)) THEN <<"GREEN", "Accumulation">>
                  ELSE IF FLt(cmf_trend_value, Norm(-5, 100)) THEN <<"RED", "Distribution">>
                  ELSE <<"WHITE", "Flat">>
         ELSE <<"WHITE", "N/A">>
    ELSE <<"WHITE", "N/A">>

\* the signals with the DI spread voting by display band: beyond +-10 only
SignalsByBand(adx_trend_text, di_spread, cmf_trend_text) ==
    LET s1 == IF adx_trend_text = "Increasing" THEN <<1, 0>>
              ELSE IF adx_trend_text = "Weakening" THEN <<0, 1>> ELSE <<0, 0>>
        s2 == IF FGt(di_spread, R(10)) THEN <<1, 0>>
              ELSE IF FLt(di_spread, R(-10)) THEN <<0, 1>> ELSE <<0, 0>>
        s3 == IF cmf_trend_text = "Accumulation" THEN <<1, 0>>
              ELSE IF cmf_trend_text = "Distribution" THEN <<0, 1>> ELSE <<0, 0>>
    IN  <<s1[1] + s2[1] + s3[1], s1[2] + s2[2] + s3[2]>>

\* the signals with the vote of the DI spread inverted
SignalsDiInverted(adx_trend_text, di_spread, cmf_trend_text) ==
    LET s1 == IF adx_trend_text = "Increasing" THEN <<1, 0>>
              ELSE IF adx_trend_text = "Weakening" THEN <<0, 1>> ELSE <<0, 0>>
        s2 == IF FGt(di_spread, R(0)) THEN <<0, 1>>
              ELSE IF FLt(di_spread, R(0)) THEN <<1, 0>> ELSE <<0, 0>>
        s3 == IF cmf_trend_text = "Accumulation" THEN <<1, 0>>
              ELSE IF cmf_trend_text = "Distribution" THEN <<0, 1>> ELSE <<0, 0>>
    IN  <<s1[1] + s2[1] + s3[1], s1[2] + s2[2] + s3[2]>>

\* lines 117-136: <<bullish_signals, bearish_signals>>
Signals(adx_trend_text, di_spread, cmf_trend_text) ==
    LET s1 == IF adx_trend_text = "Increasing" THEN <<1, 0>>
              ELSE IF adx_trend_text = "Weakening" THEN <<0, 1>> ELSE <<0, 0>>
        s2 == IF FGt(di_spread, R(0)) THEN <<1, 0>>
              ELSE IF FLt(di_spread, R(0)) THEN <<0, 1>> ELSE <<0, 0>>
        s3 == IF cmf_trend_text = "Accumulation" THEN <<1, 0>>
              ELSE IF cmf_trend_text = "Distribution" THEN <<0, 1>> ELSE <<0, 0>>
    IN  <<s1[1] + s2[1] + s3[1], s1[2] + s2[2] + s3[2]>>

\* majority voting without the no-dissent rule
RemarkPlainMajority(bullish_signals, bearish_signals) ==
    IF bullish_signals >= 2 THEN <<"GREEN", "Bullish">>
    ELSE IF bearish_signals >= 2 THEN <<"RED", "Bearish">>
    ELSE IF bullish_signals > bearish_signals THEN <<"YELLOW", "Bullish Bias">>
    ELSE IF bearish_signals > bullish_signals THEN <<"ORANGE", "Bearish Bias">>
    ELSE <<"WHITE", "Sideway">>

\* lines 138-148: majority voting
Remark(bullish_signals, bearish_signals) ==
    IF bullish_signals >= 2 /\ bearish_signals = 0 THEN <<"GREEN", "Bullish">>
    ELSE IF bearish_signals >= 2 /\ bullish_signals = 0 THEN <<"RED", "Bearish">>
    ELSE IF bullish_signals > bearish_signals THEN <<"YELLOW", "Bullish Bias">>
    ELSE IF bearish_signals > bullish_signals THEN <<"ORANGE", "Bearish Bias">>
    ELSE <<"WHITE", "Sideway">>


----------------------------------------------------------------------------
(* State *)

VARIABLES
    df,               \* the sector's OHLCV DataFrame, oldest bar first
    regime,           \* kind of the sessions still to come
    pc,               \* position in calculate_trend_indicators
    n_sessions,       \* argument n_sessions of the call in progress
    recent_adx,       \* adx_series.tail(n_sessions)
    current_plus_di,
    current_minus_di,
    norm_adx,
    adx_trend,        \* <<adx_trend_emoji, adx_trend_text>>
    di_spread,
    di_emoji,
    trend_strength,
    cmf_value,        \* calculate_cmf(df), before the 0.0 default of line 112
    cmf_returns,      \* what the calculate_cmf calls of line 93 returned, in order
    cmf_series,
    cmf_trend,        \* <<cmf_trend_emoji, cmf_trend_text>>
    record,           \* <<dict>> returned by the last call, <<>> for None
    heap,             \* the dict objects of rank_by_trend_strength, by identity
    trend_data,       \* argument of rank_by_trend_strength: a list of identities
    ranked,           \* its return value
    rank_pc,
    ind_name,         \* the indicator function called last, "" for none
    ind_args,         \* its arguments after the frame or series
    ind_result,       \* what it returned
    downloads,        \* what yf.download returns for each sector, in config order
    sector_data,      \* the dict load_sector_data returned: <<name, frame>> pairs
    failed_sectors,   \* failed_sectors of load_sector_data
    app_pc,           \* position in the evaluation cycle of app.py
    cycle_n,          \* n_sessions of create_trend_indicator_table
    cycle_i,          \* the entry of sector_data its loop is at
    table,            \* its return value: display rows, <<>> for None
    summary           \* what get_trend_summary returned

frame == <<n_sessions, recent_adx, current_plus_di, current_minus_di, norm_adx,
           adx_trend, di_spread, di_emoji, trend_strength, cmf_value,
           cmf_returns, cmf_series, cmf_trend>>

rankvars == <<heap, trend_data, ranked, rank_pc>>

indvars == <<ind_name, ind_args, ind_result>>

appvars == <<downloads, sector_data, failed_sectors, app_pc, cycle_n, cycle_i, table, summary>>

vars == <<df, regime, pc, frame, record, rankvars, indvars, appvars>>

\* slider of app.py: min_value=2, max_value=10
MIN_SESSIONS == 2

MAX_SESSIONS == 10

\* buffer of the length gate, line 23
BUFFER == 20

Unset == <<>>

FrameUnset ==
    /\ recent_adx = Unset
    /\ current_plus_di = Unset
    /\ current_minus_di = Unset
    /\ norm_adx = Unset
    /\ adx_trend = Unset
    /\ di_spread = Unset
    /\ di_emoji = Unset
    /\ trend_strength = Unset
    /\ cmf_value = Unset
    /\ cmf_returns = Unset
    /\ cmf_series = Unset
    /\ cmf_trend = Unset

\* a fresh frame: no local is bound yet
EnterFrame(n) ==
    /\ n_sessions' = n
    /\ recent_adx' = Unset
    /\ current_plus_di' = Unset
    /\ current_minus_di' = Unset
    /\ norm_adx' = Unset
    /\ adx_trend' = Unset
    /\ di_spread' = Unset
    /\ di_emoji' = Unset
    /\ trend_strength' = Unset
    /\ cmf_value' = Unset
    /\ cmf_returns' = Unset
    /\ cmf_series' = Unset
    /\ cmf_trend' = Unset

\* lines 33-83, given the three series calculate_adx_series returned
AdxBlock(adx_series, plus_di_series, minus_di_series) ==
    /\ recent_adx' = TailN(adx_series, n_sessions)
    /\ current_plus_di' = Last(TailN(plus_di_series, n_sessions))
    /\ current_minus_di' = Last(TailN(minus_di_series, n_sessions))
    /\ norm_adx' = NormAdx(recent_adx')
    /\ adx_trend' = AdxTrend(recent_adx')
    /\ di_spread' = FSub(current_plus_di', current_minus_di')
    /\ di_emoji' = DiEmoji(di_spread')
    /\ trend_strength' = TrendStrength(Last(recent_adx'))
    /\ pc' = "cmf"
    /\ UNCHANGED <<n_sessions, cmf_value, cmf_returns, cmf_series, cmf_trend>>

\* lines 85-114, given what calculate_cmf returns for df (value) and for the
\* n_sessions truncated frames of the loop (returns, empty when the loop is skipped)
CmfBlock(value, returns) ==
    /\ cmf_value' = value
    /\ cmf_returns' = returns
    /\ cmf_series' = Keep(returns)
    /\ cmf_trend' = CmfTrend(value, cmf_series')
    /\ pc' = "remark"
    /\ UNCHANGED <<n_sessions, recent_adx, current_plus_di, current_minus_di, norm_adx,
                   adx_trend, di_spread, di_emoji, trend_strength>>

\* the dict of lines 150-161
TrendRecord(sector_name, remark) ==
    [Sector    |-> sector_name,
     ADX       |-> Last(recent_adx),
     Norm_ADX  |-> norm_adx,
     ADX_Trend |-> adx_trend,
     DI_Spread |-> di_spread,
     DI_Spread_Display |-> di_emoji,
     Trend     |-> trend_strength,
     CMF       |-> IF cmf_value # None THEN cmf_value ELSE R(0),
     CMF_Trend |-> cmf_trend,
     Remark    |-> remark]

\* lines 116-161: vote, build the dict, return it
RemarkBlock(sector_name) ==
    /\ pc = "remark"
    /\ LET sig == Signals(adx_trend[2], di_spread, cmf_trend[2])
       IN  record' = <<TrendRecord(sector_name, Remark(sig[1], sig[2]))>>
    /\ pc' = "done"
    /\ UNCHANGED frame


----------------------------------------------------------------------------
(* The OHLCV input.  A series is a history of BaseBars sessions of one    *)
(* kind followed by new sessions of one kind: "U" an up bar closing at    *)
(* its high, "D" a down bar closing at its low, "F" an unchanged bar      *)
(* closing at its middle.  Every bar has High - Low = 4 and the same      *)
(* volume.                                                                 *)

Kinds == {"U", "D", "F"}

BaseBars == 21

MaxBars == 31

StartMid == 100

BarVolume == 10

Bar(mid, kind) ==
    [High   |-> R(mid + 2),
     Low    |-> R(mid - 2),
     Close  |-> R(IF kind = "U" THEN mid + 2 ELSE IF kind = "D" THEN mid - 2 ELSE mid),
     Volume |-> R(BarVolume)]

Step(kind) == IF kind = "U" THEN 1 ELSE IF kind = "D" THEN -1 ELSE 0

History(kind, len) == [i \in 1..len |-> Bar(StartMid + i * Step(kind), kind)]

NextBar(series, kind) == Bar(Last(series).High[1] - 2 + Step(kind), kind)

----------------------------------------------------------------------------
(* Spec: calculate_trend_indicators on the series of one sector, session  *)
(* after session.                                                          *)

IndIdle ==
    /\ ind_name = ""
    /\ ind_args = <<>>
    /\ ind_result = <<>>

AppIdle ==
    /\ downloads = <<>>
    /\ sector_data = <<>>
    /\ failed_sectors = <<>>
    /\ app_pc = "idle"
    /\ cycle_n = MIN_SESSIONS
    /\ cycle_i = 1
    /\ table = <<>>
    /\ summary = <<>>

RankIdle ==
    /\ heap = <<>>
    /\ trend_data = <<>>
    /\ ranked = <<>>
    /\ rank_pc = "off"

Init ==
    /\ \E k \in Kinds : df = History(k, BaseBars)
    /\ regime \in Kinds
    /\ pc = "idle"
    /\ n_sessions = MIN_SESSIONS
    /\ FrameUnset
    /\ record = None
    /\ RankIdle
    /\ IndIdle
    /\ AppIdle

\* the gate with the comparison off by one
TooShortInclusive(series, n) == Len(series) <= n + BUFFER

\* line 23: the length gate
TooShort(series, n) == Len(series) < n + BUFFER

\* lines 11-24: the call and its length gate
Call ==
    /\ pc \in {"idle", "done"}
    /\ \E n \in MIN_SESSIONS..MAX_SESSIONS : EnterFrame(n)
    /\ record' = None
    /\ pc' = IF TooShort(df, n_sessions') THEN "done" ELSE "adx"
    /\ UNCHANGED <<df, regime, rankvars, indvars, appvars>>

\* lines 28-83
AdxStage ==
    /\ pc = "adx"
    /\ LET r == CalculateAdxSeries(df, ADX_PERIOD)
       IN  IF r[1] = None
           THEN pc' = "done" /\ UNCHANGED frame
           ELSE AdxBlock(r[1], r[2], r[3])
    /\ UNCHANGED <<df, regime, record, rankvars, indvars, appvars>>

\* the frame of loop round i (1-based): df.iloc[:-(n_sessions-i)], df in the last round
TempDf(i) == IF i < n_sessions THEN DropLast(df, n_sessions - i) ELSE df

\* lines 85-114
CmfStage ==
    /\ pc = "cmf"
    /\ LET value == CalculateCmf(df, CMF_PERIOD)
       IN  CmfBlock(value,
                    IF value # None
                    THEN [i \in 1..n_sessions |-> CalculateCmf(TempDf(i), CMF_PERIOD)]
                    ELSE <<>>)
    /\ UNCHANGED <<df, regime, record, rankvars, indvars, appvars>>

\* lines 116-161
RemarkStage ==
    /\ RemarkBlock("SECTOR")
    /\ UNCHANGED <<df, regime, rankvars, indvars, appvars>>

\* the next session's bar arrives; the next evaluation starts afresh
AppendBar ==
    /\ pc \in {"idle", "done"}
    /\ Len(df) < MaxBars
    /\ df' = Append(df, NextBar(df, regime))
    /\ EnterFrame(n_sessions)
    /\ record' = None
    /\ pc' = "idle"
    /\ UNCHANGED <<regime, rankvars, indvars, appvars>>

Next == Call \/ AdxStage \/ CmfStage \/ RemarkStage \/ AppendBar

Spec == Init /\ [][Next]_vars


----------------------------------------------------------------------------
(* SpecStage: the blocks of calculate_trend_indicators on arbitrary       *)
(* results of the indicator library.  The call has passed the length      *)
(* gate; what calculate_adx_series and calculate_cmf return is drawn from *)
(* small sets that hold the thresholds of the classifications.            *)

StageMaxSessions == 3

StageAdxValues == {NaN, R(20), R(25), R(27)}

\* <<+DI, -DI>> of the latest bar
StageDiValues ==
    {<<R(40), R(10)>>, <<R(25), R(10)>>, <<R(15), R(10)>>, <<R(10), R(10)>>,
     <<R(10), R(15)>>, <<R(10), R(25)>>, <<R(10), R(40)>>}

StageCmfValues == {None, R(0), Norm(1, 100), Norm(3, 50), Norm(7, 100)}

InitStage ==
    /\ df = <<>>
    /\ regime = "F"
    /\ pc = "idle"
    /\ n_sessions = MIN_SESSIONS
    /\ FrameUnset
    /\ record = None
    /\ RankIdle
    /\ IndIdle
    /\ AppIdle

StageCall ==
    /\ pc \in {"idle", "done"}
    /\ \E n \in MIN_SESSIONS..StageMaxSessions : EnterFrame(n)
    /\ record' = None
    /\ pc' = "adx"
    /\ UNCHANGED <<df, regime, rankvars, indvars, appvars>>

StageAdx ==
    /\ pc = "adx"
    /\ \E w \in [1..n_sessions -> StageAdxValues], di \in StageDiValues :
          AdxBlock(w, [i \in 1..n_sessions |-> di[1]], [i \in 1..n_sessions |-> di[2]])
    /\ UNCHANGED <<df, regime, record, rankvars, indvars, appvars>>

\* the last round of the loop evaluates df itself, as line 86 does
StageCmf ==
    /\ pc = "cmf"
    /\ \E rs \in [1..n_sessions -> StageCmfValues] :
          CmfBlock(Last(rs), IF Last(rs) # None THEN rs ELSE <<>>)
    /\ UNCHANGED <<df, regime, record, rankvars, indvars, appvars>>

NextStage == StageCall \/ StageAdx \/ StageCmf \/ RemarkStage

SpecStage == InitStage /\ [][NextStage]_vars


----------------------------------------------------------------------------
(* trend_analysis.rank_by_trend_strength.  A dict is a function from its  *)
(* keys; the dicts live in heap and a list holds their identities, so the *)
(* in-place updates of the function are visible through every list.       *)

\* max in place of min
PyMax(a, b) == IF FGt(b, a) THEN b ELSE a

\* Python's min(a, b): b when b < a, else a
PyMin(a, b) == IF FLt(b, a) THEN b ELSE a

\* lines 183-199
Score(item) ==
    LET s1 == FAdd(R(0), PyMin(item.ADX, R(40)))
        s2 == FAdd(s1, FMul(item.Norm_ADX, Norm(3, 10)))
        s3 == FAdd(s2, PyMin(FAbs(item.DI_Spread), R(20)))
        s4 == FAdd(s3, PyMin(FMul(FAbs(item.CMF), R(100)), R(10)))
    IN  s4

SetKey(d, k, v) == [x \in (DOMAIN d) \cup {k} |-> IF x = k THEN v ELSE d[x]]

\* the dict left as it is
KeepKey(d, k) == d

\* del d[k]
DelKey(d, k) == [x \in (DOMAIN d) \ {k} |-> d[x]]

Reverse(s) == Mat([i \in 1..Len(s) |-> s[Len(s) + 1 - i]])

(* sorted(list, key=..., reverse=True) of CPython for fewer than 64       *)
(* elements: the list is reversed, its leading run is found (and reversed *)
(* when strictly descending), the rest is inserted by binary search, and  *)
(* the result is reversed.  An element is a pair <<key, item>>; keys are  *)
(* compared with <, which is false when a key is NaN.                     *)

RECURSIVE RunEnd(_, _, _)
\* count_run: last position of the run that starts at 1
RunEnd(a, i, descending) ==
    IF i > Len(a) THEN Len(a)
    ELSE IF FLt(a[i][1], a[i - 1][1]) = descending THEN RunEnd(a, i + 1, descending)
    ELSE i - 1

RECURSIVE BinarySearch(_, _, _, _)
\* the place of pivot among a[l..r-1]
BinarySearch(a, pivot, l, r) ==
    IF l >= r THEN l
    ELSE LET p == l + ((r - l) \div 2)
         IN  IF FLt(pivot[1], a[p][1]) THEN BinarySearch(a, pivot, l, p)
             ELSE BinarySearch(a, pivot, p + 1, r)

RECURSIVE BinarySort(_, _)
\* binarysort: a[1..start-1] is the sorted part
BinarySort(a, start) ==
    IF start > Len(a) THEN a
    ELSE LET pivot == a[start]
             l     == BinarySearch(a, pivot, 1, start)
         IN  BinarySort(SubSeq(a, 1, l - 1) \o <<pivot>> \o SubSeq(a, l, start - 1)
                            \o SubSeq(a, start + 1, Len(a)),
                        start + 1)

SortedReverse(pairs) ==
    IF Len(pairs) < 2 THEN pairs
    ELSE LET a          == Reverse(pairs)
             descending == FLt(a[2][1], a[1][1])
             n_run      == RunEnd(a, 3, descending)
             b          == IF descending
                           THEN Reverse(SubSeq(a, 1, n_run)) \o SubSeq(a, n_run + 1, Len(a))
                           ELSE a
         IN  Reverse(BinarySort(b, n_run + 1))

\* line 204: the identities of trend_data ordered by _score
Ranked(h, data) ==
    LET sorted == SortedReverse(Mat([i \in 1..Len(data) |-> <<h[data[i]]["_score"], data[i]>>]))
    IN  Mat([i \in 1..Len(sorted) |-> sorted[i][2]])

\* position of identity id in list
RECURSIVE IndexOf(_, _, _)
IndexOf(list, id, i) == IF list[i] = id THEN i ELSE IndexOf(list, id, i + 1)

InList(list, id) == \E i \in 1..Len(list) : list[i] = id

\* lines 178-211
RankByTrendStrength ==
    /\ rank_pc = "ready"
    /\ IF Len(trend_data) = 0
       THEN /\ ranked' = <<>>
            /\ heap' = heap
       ELSE LET scored == Mat([id \in DOMAIN heap |->
                              IF InList(trend_data, id)
                              THEN SetKey(heap[id], "_score", Score(heap[id]))
                              ELSE heap[id]])
                order  == Ranked(scored, trend_data)
            IN  /\ ranked' = order
                /\ heap' = [id \in DOMAIN heap |->
                              IF InList(order, id)
                              THEN DelKey(SetKey(scored[id], "Rank", IndexOf(order, id, 1)), "_score")
                              ELSE scored[id]]
    /\ rank_pc' = "ranked"
    /\ UNCHANGED <<trend_data, df, regime, pc, frame, record, indvars, appvars>>


----------------------------------------------------------------------------
(* SpecRank: rank_by_trend_strength on a list of trend records.  Each     *)
(* record is one of three that calculate_trend_indicators returns: a      *)
(* moderate trend, a trend that saturates every term of the score, and    *)
(* the record of a 22-bar unchanged series, whose ADX is NaN.             *)

MaxRecords == 7

\* config.SECTORS
SectorNames ==
    <<"NIFTY 50", "BANK (Banknifty)", "FINANCIAL SERVICES", "PSU BANKS", "PRIVATE BANKS",
      "AUTO", "IT", "METAL", "PHARMA", "FMCG">>

RecordKinds ==
    <<[ADX |-> R(30), Norm_ADX |-> R(50), ADX_Trend |-> <<"WHITE", "Flat">>,
       DI_Spread |-> R(-5), DI_Spread_Display |-> "WHITE", Trend |-> "Strong",
       CMF |-> Norm(1, 50), CMF_Trend |-> <<"WHITE", "Flat">>,
       Remark |-> <<"ORANGE", "Bearish Bias">>],
      [ADX |-> R(45), Norm_ADX |-> R(100), ADX_Trend |-> <<"GREEN", "Increasing">>,
       DI_Spread |-> R(25), DI_Spread_Display |-> "GREEN", Trend |-> "Strong",
       CMF |-> Norm(1, 5), CMF_Trend |-> <<"GREEN", "Accumulation">>,
       Remark |-> <<"GREEN", "Bullish">>],
      [ADX |-> NaN, Norm_ADX |-> R(50), ADX_Trend |-> <<"WHITE", "Flat">>,
       DI_Spread |-> R(0), DI_Spread_Display |-> "WHITE", Trend |-> "Weak",
       CMF |-> R(0), CMF_Trend |-> <<"WHITE", "N/A">>,
       Remark |-> <<"WHITE", "Sideway">>]>>

InitRank ==
    /\ df = <<>>
    /\ regime = "F"
    /\ pc = "idle"
    /\ n_sessions = MIN_SESSIONS
    /\ FrameUnset
    /\ record = None
    /\ \E n \in 0..MaxRecords :
          \E kind \in [1..n -> 1..Len(RecordKinds)] :
             /\ heap = [id \in 1..n |-> SetKey(RecordKinds[kind[id]], "Sector", SectorNames[id])]
             /\ trend_data = [i \in 1..n |-> i]
    /\ ranked = <<>>
    /\ rank_pc = "ready"
    /\ IndIdle
    /\ AppIdle

NextRank == RankByTrendStrength

SpecRank == InitRank /\ [][NextRank]_vars

----------------------------------------------------------------------------
(* SpecScore: rank_by_trend_strength on a single record whose four        *)
(* scored fields take values below, at and above the caps of the score.   *)

ScoreAdxValues == {R(0), R(20), Norm(399, 10), R(40), R(45)}

ScoreNormValues == {R(0), R(50), Norm(999, 10), R(100)}

ScoreDiValues == {R(-25), R(-20), Norm(-199, 10), R(0), R(10), R(20), R(25)}

ScoreCmfValues == {Norm(-1, 5), Norm(-1, 10), R(0), Norm(1, 20), Norm(99, 1000), Norm(1, 10), Norm(1, 5)}

ScoreRecord(adx, norm, di, cmf) ==
    [Sector |-> SectorNames[1], ADX |-> adx, Norm_ADX |-> norm,
     ADX_Trend |-> AdxTrend(<<adx, adx>>), DI_Spread |-> di, DI_Spread_Display |-> DiEmoji(di),
     Trend |-> TrendStrength(adx), CMF |-> cmf, CMF_Trend |-> <<"WHITE", "Flat">>,
     Remark |-> Remark(Signals("Flat", di, "Flat")[1], Signals("Flat", di, "Flat")[2])]

InitScore ==
    /\ df = <<>>
    /\ regime = "F"
    /\ pc = "idle"
    /\ n_sessions = MIN_SESSIONS
    /\ FrameUnset
    /\ record = None
    /\ \/ heap = <<>> /\ trend_data = <<>>
       \/ \E adx \in ScoreAdxValues, norm \in ScoreNormValues,
             di \in ScoreDiValues, cmf \in ScoreCmfValues :
             /\ heap = <<ScoreRecord(adx, norm, di, cmf)>>
             /\ trend_data = <<1>>
    /\ ranked = <<>>
    /\ rank_pc = "ready"
    /\ IndIdle
    /\ AppIdle

NextScore == RankByTrendStrength

SpecScore == InitScore /\ [][NextScore]_vars



----------------------------------------------------------------------------
(* SpecInd: the indicator library called on a frame that grows bar by     *)
(* bar.  The first bar either has a range and volume or is a single price *)
(* without volume; every later bar moves High and Low relative to the bar  *)
(* before it and closes at its high, its low or its middle.               *)

MaxIndBars == 5

MaxPeriod == 3

IndPeriods == 2..MaxPeriod

\* std_dev=2, the default of calculate_bollinger_bands
BB_STD == 2

FirstBars ==
    {[High |-> R(12), Low |-> R(8), Close |-> R(10), Volume |-> R(10)],
     [High |-> R(10), Low |-> R(10), Close |-> R(10), Volume |-> R(0)],
     [High |-> R(2), Low |-> R(0), Close |-> R(0), Volume |-> R(10)]}

Moves ==
    {[dh |-> 1, dl |-> 1, at |-> "H", vol |-> 10],
     [dh |-> 2, dl |-> 1, at |-> "L", vol |-> 20],
     [dh |-> -1, dl |-> -1, at |-> "L", vol |-> 10],
     [dh |-> 0, dl |-> 0, at |-> "M", vol |-> 0]}

MovedBar(prev, m) ==
    LET high == prev.High[1] + m.dh
        low  == prev.Low[1] + m.dl
    IN  [High   |-> R(high),
         Low    |-> R(low),
         Close  |-> IF m.at = "H" THEN R(high)
                    ELSE IF m.at = "L" THEN R(low) ELSE Norm(high + low, 2),
         Volume |-> R(m.vol)]

InitInd ==
    /\ df = <<>>
    /\ regime = "F"
    /\ pc = "idle"
    /\ n_sessions = MIN_SESSIONS
    /\ FrameUnset
    /\ record = None
    /\ RankIdle
    /\ IndIdle
    /\ AppIdle

\* a call of one indicator function once the caller has taken the result of
\* the call before: its name, its arguments after the frame or series, and
\* what it returned
Returns(name, args, result) ==
    /\ ind_name = ""
    /\ ind_name' = name
    /\ ind_args' = args
    /\ ind_result' = result
    /\ UNCHANGED <<df, regime, pc, frame, record, rankvars, appvars>>

CallRsi == \E period \in IndPeriods :
    Returns("rsi", <<period>>, CalculateRsi(Col(df, "Close"), period))

CallBollinger == \E period \in IndPeriods :
    Returns("bollinger", <<period, BB_STD>>,
            CalculateBollingerBands(Col(df, "Close"), period, BB_STD))

CallAtr == \E period \in IndPeriods :
    Returns("atr", <<period>>, CalculateAtr(df, period))

CallAdx == \E period \in IndPeriods :
    Returns("adx", <<period>>, CalculateAdx(df, period))

CallAdxSeries == \E period \in IndPeriods :
    Returns("adx_series", <<period>>, CalculateAdxSeries(df, period))

CallStochastic == \E period \in IndPeriods :
    Returns("stochastic", <<period>>, CalculateStochastic(df, period))

CallVwap == \E lookback \in IndPeriods :
    Returns("vwap", <<lookback>>, CalculateVwap(df, lookback))

CallSma == \E period \in IndPeriods :
    Returns("sma", <<period>>, CalculateSma(Col(df, "Close"), period))

CallEma == \E period \in IndPeriods :
    Returns("ema", <<period>>, CalculateEma(Col(df, "Close"), period))

CallVolumeRatio == \E period \in IndPeriods :
    Returns("volume_ratio", <<period>>, CalculateVolumeRatio(df, period))

CallCmf == \E period \in IndPeriods :
    Returns("cmf", <<period>>, CalculateCmf(df, period))

\* fast < slow, as in the defaults 12, 26, 9
CallMacd == \E slow \in IndPeriods : \E signal \in IndPeriods :
    Returns("macd", <<1, slow, signal>>, CalculateMacd(Col(df, "Close"), 1, slow, signal))

CallMomentum == \E period \in IndPeriods :
    Returns("momentum", <<period>>, CalculateMomentum(Col(df, "Close"), period))

CallRoc == \E period \in IndPeriods :
    Returns("roc", <<period>>, CalculateRoc(Col(df, "Close"), period))

CallObv == Returns("obv", <<>>, CalculateObv(df))

\* the next bar of the series is loaded; no price falls below 0
AppendInd ==
    /\ Len(df) < MaxIndBars
    /\ IF Len(df) = 0
       THEN \E bar \in FirstBars : df' = <<bar>>
       ELSE \E m \in Moves :
               /\ Last(df).Low[1] + m.dl >= 0
               /\ df' = Append(df, MovedBar(Last(df), m))
    /\ ind_name' = ""
    /\ ind_args' = <<>>
    /\ ind_result' = <<>>
    /\ UNCHANGED <<regime, pc, frame, record, rankvars, appvars>>

\* the caller has stored the result
TakeResult ==
    /\ ind_name # ""
    /\ ind_name' = ""
    /\ ind_args' = <<>>
    /\ ind_result' = <<>>
    /\ UNCHANGED <<df, regime, pc, frame, record, rankvars, appvars>>

NextInd ==
    \/ TakeResult
    \/ CallRsi \/ CallBollinger \/ CallAtr \/ CallAdx \/ CallStochastic \/ CallVwap
    \/ CallSma \/ CallEma \/ CallVolumeRatio \/ CallCmf \/ CallMacd \/ CallMomentum
    \/ CallRoc \/ CallObv \/ CallAdxSeries \/ AppendInd

SpecInd == InitInd /\ [][NextInd]_vars


----------------------------------------------------------------------------
(* SpecRise: calculate_trend_indicators on a series whose closes rise by  *)
(* 1 per bar from RiseStart at constant volume.  Every bar has            *)
(* High - Low = 4; the close lies o/2 below the high for a level o in     *)
(* 0..8.  Highs and lows rise strictly when the level falls by at most 1  *)
(* from one bar to the next.  A series either changes its level once      *)
(* ("drop": level a up to bar k, level b >= a after it) or climbs from    *)
(* level 8 to level 0 by one level per bar from bar k on ("climb").       *)

RiseBars == 60

RiseStart == 100

RiseVolume == 1000

\* the bars in which the level may change: the last RiseSwitch ones
RiseSwitch == 8

Levels == {0, 4, 8}

RiseBar(i, o) ==
    LET c == RiseStart + i - 1
    IN  [High   |-> Norm(2 * c + o, 2),
         Low    |-> Norm(2 * c + o - 8, 2),
         Close  |-> R(c),
         Volume |-> R(RiseVolume)]

DropSeries(a, b, k) == [i \in 1..RiseBars |-> RiseBar(i, IF i <= k THEN a ELSE b)]

ClimbSeries(k) ==
    [i \in 1..RiseBars |-> RiseBar(i, IF i <= k THEN 8 ELSE IF i - k >= 8 THEN 0 ELSE 8 - (i - k))]

RiseSeries ==
    {DropSeries(a, b, k) : a \in Levels, b \in Levels, k \in (RiseBars - RiseSwitch)..(RiseBars - 1)}
    \cup {ClimbSeries(k) : k \in (RiseBars - RiseSwitch)..(RiseBars - 1)}

InitRise ==
    /\ df \in {s \in RiseSeries :
                 \A i \in 2..Len(s) : FLt(s[i - 1].High, s[i].High) /\ FLt(s[i - 1].Low, s[i].Low)}
    /\ regime = "U"
    /\ pc = "idle"
    /\ n_sessions = MIN_SESSIONS
    /\ FrameUnset
    /\ record = None
    /\ RankIdle
    /\ IndIdle
    /\ AppIdle

NextRise == Call \/ AdxStage \/ CmfStage \/ RemarkStage

SpecRise == InitRise /\ [][NextRise]_vars


----------------------------------------------------------------------------
(* SpecApp: one evaluation cycle of app.py.  load_sector_data downloads   *)
(* a frame for each sector, create_trend_indicator_table evaluates the    *)
(* loaded frames in dict order and ranks the records.  A frame is a       *)
(* record of its column names and its rows; a row removed by dropna has   *)
(* a NaN close.  A download either raises or returns a frame.             *)

\* validate_data: min_rows=50
MIN_ROWS == 50

\* load_sector_data line 32: len(df) > 50
LOAD_ROWS == 50

NumSectors == 2

MaxNanRows == 2

CycleMaxSessions == 3

required_cols == {"Open", "High", "Low", "Close", "Volume"}

\* the bars of sector i: rising for odd i, falling for even i
SectorKind(i) == IF i % 2 = 1 THEN "U" ELSE "D"

DownloadedBar(bar, missing) ==
    [Open   |-> bar.Low,
     High   |-> bar.High,
     Low    |-> bar.Low,
     Close  |-> IF missing THEN NaN ELSE bar.Close,
     Volume |-> bar.Volume]

\* a downloaded frame of `rows` rows, the first `nan` of them incomplete
Downloaded(i, rows, nan, columns) ==
    [raises  |-> FALSE,
     columns |-> columns,
     bars    |-> LET h == History(SectorKind(i), rows)
                 IN  Mat([j \in 1..rows |-> DownloadedBar(h[j], j <= nan)])]

\* yf.download raises
DownloadError == [raises |-> TRUE, columns |-> {}, bars |-> <<>>]

\* what yf.download may do for sector i
Downloads(i) ==
    {DownloadError, Downloaded(i, 0, 0, required_cols),
     Downloaded(i, LOAD_ROWS + 1, 0, required_cols \ {"Volume"})}
    \cup {Downloaded(i, rows, nan, required_cols \cup {"Adj Close"}) :
              rows \in (LOAD_ROWS - 1)..(LOAD_ROWS + 1), nan \in 0..MaxNanRows}

\* DataFrame.dropna
DropNa(bars) ==
    SelectSeq(bars, LAMBDA b : ~(IsNaN(b.Open) \/ IsNaN(b.High) \/ IsNaN(b.Low)
                                  \/ IsNaN(b.Close) \/ IsNaN(b.Volume)))

\* the loader's length test with >= in place of >
LongEnoughInclusive(download) == Len(download.bars) >= LOAD_ROWS

\* data_loader.py line 32: not df.empty and len(df) > 50
LongEnough(download) == Len(download.bars) > LOAD_ROWS

RECURSIVE LoadLoop(_, _, _, _)
\* data_loader.py lines 28-48: <<data, failed_sectors>> after the loop from sector i on
LoadLoop(dl, i, data, failed) ==
    IF i > Len(dl) THEN <<data, failed>>
    ELSE LET name == SectorNames[i]
             d    == dl[i]
         IN  IF d.raises THEN LoadLoop(dl, i + 1, data, Append(failed, name))
             ELSE IF Len(d.bars) # 0 /\ LongEnough(d)
             THEN IF required_cols \subseteq d.columns
                  THEN LoadLoop(dl, i + 1,
                                Append(data, <<name, [columns |-> required_cols,
                                                      bars    |-> DropNa(d.bars)]>>),
                                failed)
                  ELSE LoadLoop(dl, i + 1, data, Append(failed, name))
             ELSE LoadLoop(dl, i + 1, data, Append(failed, name))

\* validate_data with a row test of > in place of <
ValidateDataStrict(f) ==
    IF f = None \/ Len(f.bars) = 0 THEN FALSE
    ELSE IF Len(f.bars) <= MIN_ROWS THEN FALSE
    ELSE IF ~(required_cols \subseteq f.columns) THEN FALSE
    ELSE TRUE

\* data_loader.py lines 58-79
ValidateData(f) ==
    IF f = None \/ Len(f.bars) = 0 THEN FALSE
    ELSE IF Len(f.bars) < MIN_ROWS THEN FALSE
    ELSE IF ~(required_cols \subseteq f.columns) THEN FALSE
    ELSE TRUE

InitApp ==
    /\ df = <<>>
    /\ regime = "F"
    /\ pc = "idle"
    /\ n_sessions = MIN_SESSIONS
    /\ FrameUnset
    /\ record = None
    /\ heap = <<>>
    /\ trend_data = <<>>
    /\ ranked = <<>>
    /\ rank_pc = "idle"
    /\ IndIdle
    /\ downloads \in {dl \in [1..NumSectors -> UNION {Downloads(i) : i \in 1..NumSectors}] :
                         \A i \in 1..NumSectors : dl[i] \in Downloads(i)}
    /\ sector_data = <<>>
    /\ failed_sectors = <<>>
    /\ app_pc = "load"
    /\ cycle_n = MIN_SESSIONS
    /\ cycle_i = 1
    /\ table = <<>>
    /\ summary = <<>>

\* app.py line 449: sector_data = load_sector_data(SECTORS, ...)
LoadSectorData ==
    /\ app_pc = "load"
    /\ LET r == LoadLoop(downloads, 1, <<>>, <<>>)
       IN  /\ sector_data' = r[1]
           /\ failed_sectors' = r[2]
    /\ app_pc' = "loaded"
    /\ UNCHANGED <<downloads, cycle_n, cycle_i, table, summary,
                   df, regime, pc, frame, record, rankvars, indvars>>

\* trend_analysis.py lines 32-161: the dict built from what the library calls
\* returned, or None when there is no ADX series
TrendInfo(sector_name, n, r, value, cmf_calls) ==
    IF r[1] = None THEN None
    ELSE
    LET recent  == TailN(r[1], n)
        plus    == Last(TailN(r[2], n))
        minus   == Last(TailN(r[3], n))
        spread  == FSub(plus, minus)
        returns == IF value # None THEN cmf_calls ELSE <<>>
        trend   == CmfTrend(value, Keep(returns))
        sig     == Signals(AdxTrend(recent)[2], spread, trend[2])
    IN  [Sector    |-> sector_name,
         ADX       |-> Last(recent),
         Norm_ADX  |-> NormAdx(recent),
         ADX_Trend |-> AdxTrend(recent),
         DI_Spread |-> spread,
         DI_Spread_Display |-> DiEmoji(spread),
         Trend     |-> TrendStrength(Last(recent)),
         CMF       |-> IF value # None THEN value ELSE R(0),
         CMF_Trend |-> trend,
         Remark    |-> Remark(sig[1], sig[2])]

\* trend_analysis.py lines 11-165 as one call: the dict, or None.  r is what
\* calculate_adx_series returns, value what calculate_cmf(df) returns and
\* cmf_calls what the n calls of line 93 return, each computed once.
CalculateTrendIndicators(bars, sector_name, n) ==
    IF TooShort(bars, n) THEN None
    ELSE CHOOSE trend_info \in
             {TrendInfo(sector_name, n, r, value, cmf_calls) :
                  r \in {CalculateAdxSeries(bars, ADX_PERIOD)},
                  value \in {CalculateCmf(bars, CMF_PERIOD)},
                  cmf_calls \in {Mat([i \in 1..n |->
                                       CalculateCmf(IF i < n THEN DropLast(bars, n - i) ELSE bars,
                                                    CMF_PERIOD)])}} : TRUE

\* f"{x:.1f}" and f"{x:.3f}": the decimal of `digits` places nearest to x,
\* as <<"f", digits, x * 10^digits rounded half to even>>; "nan" for NaN
FormatFixed(x, digits) ==
    IF IsNaN(x) THEN "nan"
    ELSE IF x[2] = 0 THEN IF x[1] > 0 THEN "inf" ELSE "-inf"
    ELSE LET scale == IF digits = 1 THEN 10 ELSE 1000
             num   == IAbs(x[1]) * scale
             q     == num \div x[2]
             rem2  == 2 * (num % x[2])
             mag   == IF rem2 > x[2] \/ (rem2 = x[2] /\ q % 2 = 1) THEN q + 1 ELSE q
         IN  <<"f", digits, Sgn(x[1]) * mag>>

\* app.py lines 286-297
DisplayRow(item) ==
    [Rank        |-> item.Rank,
     Sector      |-> item.Sector,
     ADX         |-> FormatFixed(item.ADX, 1),
     Norm_ADX    |-> FormatFixed(item.Norm_ADX, 1),
     ADX_Trend   |-> item.ADX_Trend,
     DI_Spread   |-> item.DI_Spread_Display,
     Trend       |-> item.Trend,
     CMF         |-> FormatFixed(item.CMF, 3),
     CMF_Trend   |-> item.CMF_Trend,
     Remark      |-> item.Remark]

\* app.py lines 455-500: main returns when nothing was loaded, else
\* create_trend_indicator_table(sector_data, n_sessions) is entered
CycleStart ==
    /\ app_pc = "loaded"
    /\ Len(sector_data) > 0
    /\ \E n \in MIN_SESSIONS..CycleMaxSessions : cycle_n' = n
    /\ cycle_i' = 1
    /\ heap' = <<>>
    /\ trend_data' = <<>>
    /\ app_pc' = "loop"
    /\ UNCHANGED <<downloads, sector_data, failed_sectors, table, summary,
                   ranked, rank_pc, df, regime, pc, frame, record, indvars>>

\* the loop's end test with one entity fewer
LoopDoneEarly == cycle_i >= Len(sector_data)

\* app.py line 268: the for loop is exhausted
LoopDone == cycle_i > Len(sector_data)

\* app.py lines 268-275: one round of the loop
CycleEvaluate ==
    /\ app_pc = "loop"
    /\ cycle_i <= Len(sector_data)
    /\ ~LoopDone
    /\ LET sector == sector_data[cycle_i][1]
           f      == sector_data[cycle_i][2]
       IN  IF ~ValidateData(f)
           THEN UNCHANGED <<heap, trend_data>>
           ELSE LET trend_info == CalculateTrendIndicators(f.bars, sector, cycle_n)
                IN  IF trend_info # None
                    THEN /\ heap' = Append(heap, trend_info)
                         /\ trend_data' = Append(trend_data, Len(heap) + 1)
                    ELSE UNCHANGED <<heap, trend_data>>
    /\ cycle_i' = cycle_i + 1
    /\ UNCHANGED <<downloads, sector_data, failed_sectors, app_pc, cycle_n, table, summary,
                   ranked, rank_pc, df, regime, pc, frame, record, indvars>>

\* app.py lines 277-281: return None, or call rank_by_trend_strength
CycleRank ==
    /\ app_pc = "loop"
    /\ LoopDone
    /\ IF Len(trend_data) = 0
       THEN /\ table' = None
            /\ app_pc' = "done"
            /\ UNCHANGED rank_pc
       ELSE /\ rank_pc' = "ready"
            /\ app_pc' = "rank"
            /\ UNCHANGED table
    /\ UNCHANGED <<downloads, sector_data, failed_sectors, cycle_n, cycle_i, summary,
                   heap, trend_data, ranked, df, regime, pc, frame, record, indvars>>

\* app.py lines 283-300: the display rows of the ranked records
CycleTable ==
    /\ app_pc = "rank"
    /\ rank_pc = "ranked"
    /\ table' = <<Mat([j \in 1..Len(ranked) |-> DisplayRow(heap[ranked[j]])])>>
    /\ app_pc' = "done"
    /\ UNCHANGED <<downloads, sector_data, failed_sectors, cycle_n, cycle_i, summary,
                   rankvars, df, regime, pc, frame, record, indvars>>

NextApp == LoadSectorData \/ CycleStart \/ CycleEvaluate \/ CycleRank \/ RankByTrendStrength \/ CycleTable

SpecApp == InitApp /\ [][NextApp]_vars

----------------------------------------------------------------------------
(* SpecSummary: get_trend_summary on a list of trend records.  Each       *)
(* record carries the remark that the signal counting of                   *)
(* calculate_trend_indicators gives to its ADX trend, DI spread and CMF    *)
(* trend.                                                                   *)

MaxSummaryRecords == 3

SummaryAdxTrends == {<<"GREEN", "Increasing">>, <<"RED", "Weakening">>, <<"WHITE", "Flat">>}

SummaryDiValues == {R(-15), R(0), R(15)}

SummaryCmfTrends == {<<"GREEN", "Accumulation">>, <<"RED", "Distribution">>, <<"WHITE", "Flat">>}

\* the record of lines 150-161 for sector i
SummaryRecord(i, adx_tr, di, cmf_tr) ==
    LET adx == IF adx_tr[2] = "Increasing" THEN R(30)
               ELSE IF adx_tr[2] = "Weakening" THEN R(22) ELSE R(15)
        cmf == IF cmf_tr[2] = "Accumulation" THEN Norm(1, 10)
               ELSE IF cmf_tr[2] = "Distribution" THEN Norm(-1, 10) ELSE R(0)
        signals == Signals(adx_tr[2], di, cmf_tr[2])
    IN  [Sector |-> SectorNames[i], ADX |-> adx, Norm_ADX |-> R(50),
         ADX_Trend |-> adx_tr, DI_Spread |-> di, DI_Spread_Display |-> DiEmoji(di),
         Trend |-> TrendStrength(adx), CMF |-> cmf, CMF_Trend |-> cmf_tr,
         Remark |-> Remark(signals[1], signals[2])]

\* `emoji in text` for a display text <<emoji, words>>
HasEmoji(text, emoji) == text[1] = emoji

\* sum(1 for item in items if item[field] carries emoji)
CountEmoji(items, field, emoji) ==
    Cardinality({i \in 1..Len(items) : HasEmoji(items[i][field], emoji)})

\* the summary with every remark that is neither green nor red tallied neutral
GetTrendSummaryRest(items) ==
    IF Len(items) = 0 THEN None
    ELSE [total_sectors |-> Len(items),
          bullish_count |-> CountEmoji(items, "Remark", "GREEN"),
          bearish_count |-> CountEmoji(items, "Remark", "RED"),
          neutral_count |-> Cardinality({i \in 1..Len(items) :
                                           items[i].Remark[1] \notin {"GREEN", "RED"}}),
          strong_trends |-> Cardinality({i \in 1..Len(items) : items[i].Trend = "Strong"}),
          avg_adx       |-> SeriesMean(Mat([i \in 1..Len(items) |-> items[i].ADX])),
          avg_di_spread |-> SeriesMean(Mat([i \in 1..Len(items) |-> items[i].DI_Spread])),
          avg_cmf       |-> SeriesMean(Mat([i \in 1..Len(items) |-> items[i].CMF]))]

\* get_trend_summary
GetTrendSummary(items) ==
    IF Len(items) = 0 THEN None
    ELSE [total_sectors |-> Len(items),
          bullish_count |-> CountEmoji(items, "Remark", "GREEN"),
          bearish_count |-> CountEmoji(items, "Remark", "RED"),
          neutral_count |-> CountEmoji(items, "Remark", "WHITE"),
          strong_trends |-> Cardinality({i \in 1..Len(items) : items[i].Trend = "Strong"}),
          avg_adx       |-> SeriesMean(Mat([i \in 1..Len(items) |-> items[i].ADX])),
          avg_di_spread |-> SeriesMean(Mat([i \in 1..Len(items) |-> items[i].DI_Spread])),
          avg_cmf       |-> SeriesMean(Mat([i \in 1..Len(items) |-> items[i].CMF]))]

InitSummary ==
    /\ df = <<>>
    /\ regime = "F"
    /\ pc = "idle"
    /\ n_sessions = MIN_SESSIONS
    /\ FrameUnset
    /\ record = None
    /\ \E n \in 0..MaxSummaryRecords :
         \E pick \in [1..n -> SummaryAdxTrends \X SummaryDiValues \X SummaryCmfTrends] :
            /\ heap = Mat([i \in 1..n |-> SummaryRecord(i, pick[i][1], pick[i][2], pick[i][3])])
            /\ trend_data = Mat([i \in 1..n |-> i])
    /\ ranked = <<>>
    /\ rank_pc = "idle"
    /\ IndIdle
    /\ downloads = <<>>
    /\ sector_data = <<>>
    /\ failed_sectors = <<>>
    /\ app_pc = "summary"
    /\ cycle_n = MIN_SESSIONS
    /\ cycle_i = 1
    /\ table = <<>>
    /\ summary = <<>>

\* a call get_trend_summary(trend_data)
CallGetTrendSummary ==
    /\ app_pc = "summary"
    /\ summary' = GetTrendSummary(Mat([i \in 1..Len(trend_data) |-> heap[trend_data[i]]]))
    /\ app_pc' = "summarised"
    /\ UNCHANGED <<downloads, sector_data, failed_sectors, cycle_n, cycle_i, table,
                   df, regime, pc, frame, record, rankvars, indvars>>

NextSummary == CallGetTrendSummary

SpecSummary == InitSummary /\ [][NextSummary]_vars

----------------------------------------------------------------------------
(* Properties.  The comparisons below are written over the integers       *)
(* (cross-multiplied numerators and denominators), independently of the   *)
(* float operators of the model.                                           *)

Returned == pc = "done" /\ record # None

Rec == record[1]

Finite(x) == x # None /\ x[2] > 0

\* x < y, x = y for finite x and y
QLt(x, y) == x[1] * y[2] < y[1] * x[2]

QEq(x, y) == x[1] * y[2] = y[1] * x[2]

QLe(x, y) == QLt(x, y) \/ QEq(x, y)

\* y - x as a <<numerator, denominator>> pair, not reduced
QDiff(y, x) == <<y[1] * x[2] - x[1] * y[2], y[2] * x[2]>>

(* ---- C1 ---- *)

C1_Votes ==
    <<IF Rec.ADX_Trend[2] = "Increasing" THEN 1
      ELSE IF Rec.ADX_Trend[2] = "Weakening" THEN -1 ELSE 0,
      IF Finite(Rec.DI_Spread) /\ Rec.DI_Spread[1] > 0 THEN 1
      ELSE IF Finite(Rec.DI_Spread) /\ Rec.DI_Spread[1] < 0 THEN -1 ELSE 0,
      IF Rec.CMF_Trend[2] = "Accumulation" THEN 1
      ELSE IF Rec.CMF_Trend[2] = "Distribution" THEN -1 ELSE 0>>

C1_b == Cardinality({i \in 1..3 : C1_Votes[i] = 1})

C1_r == Cardinality({i \in 1..3 : C1_Votes[i] = -1})

\* C1: with b bullish and r bearish votes among the ADX trend, the sign of the
\* DI spread and the CMF trend, the Remark of a returned record is Bullish iff
\* b >= 2 and r = 0, Bearish iff r >= 2 and b = 0, Bullish Bias iff b > r
\* otherwise, Bearish Bias iff r > b otherwise, and Sideway iff b = r.
C1_MajorityVote ==
    Returned =>
        /\ (Rec.Remark = <<"GREEN", "Bullish">>) <=> (C1_b >= 2 /\ C1_r = 0)
        /\ (Rec.Remark = <<"RED", "Bearish">>) <=> (C1_r >= 2 /\ C1_b = 0)
        /\ (Rec.Remark = <<"YELLOW", "Bullish Bias">>)
              <=> (C1_b > C1_r /\ ~(C1_b >= 2 /\ C1_r = 0))
        /\ (Rec.Remark = <<"ORANGE", "Bearish Bias">>)
              <=> (C1_r > C1_b /\ ~(C1_r >= 2 /\ C1_b = 0))
        /\ (Rec.Remark = <<"WHITE", "Sideway">>) <=> (C1_b = C1_r)

\* two bullish votes and one bearish vote: Bullish Bias
C1_Witness ==
    /\ Returned
    /\ C1_b = 2
    /\ C1_r = 1
    /\ Rec.Remark = <<"YELLOW", "Bullish Bias">>

(* ---- C2 ---- *)

\* C2: after rank_by_trend_strength the record at position i carries Rank = i
\* (1-based) and the score of every record is >= the score of the next one.
C2_Descending ==
    rank_pc = "ranked" =>
        \A i \in 1..Len(ranked) :
            /\ heap[ranked[i]].Rank = i
            /\ i < Len(ranked) =>
                  FGe(Score(heap[ranked[i]]), Score(heap[ranked[i + 1]]))

(* ---- C3 ---- *)

\* C3: ranking is stable: of two records of the input list with equal scores,
\* the one that comes first in the input comes first in the ranked output.
C3_Stable ==
    rank_pc = "ranked" =>
        \A i, j \in 1..Len(trend_data) :
            (i < j /\ FEq(Score(heap[trend_data[i]]), Score(heap[trend_data[j]])))
               => IndexOf(ranked, trend_data[i], 1) < IndexOf(ranked, trend_data[j], 1)

(* ---- C4 ---- *)

\* C4: every returned record has a defined numeric ADX and a Norm_ADX in
\* [0, 100].
C4_DefinedAdx ==
    Returned =>
        /\ Finite(Rec.ADX)
        /\ Finite(Rec.Norm_ADX)
        /\ 0 <= Rec.Norm_ADX[1]
        /\ Rec.Norm_ADX[1] <= 100 * Rec.Norm_ADX[2]

(* ---- C5 ---- *)

\* C5: a finished call has returned None exactly when the series has fewer
\* than N + 20 bars; with N + 20 bars or more it has returned a record.
C5_NoneIffShort ==
    pc = "done" => (record = None <=> Len(df) < n_sessions + 20)

\* a series of exactly N + 20 bars gets a record
C5_Witness ==
    /\ pc = "done"
    /\ Len(df) = n_sessions + 20
    /\ record # None

(* ---- C6 ---- *)

Computed == pc \in {"cmf", "remark"} \/ Returned

C6_Defined == {recent_adx[i] : i \in {k \in 1..Len(recent_adx) : Finite(recent_adx[k])}}

C6_Min == CHOOSE x \in C6_Defined : \A y \in C6_Defined : QLe(x, y)

C6_Max == CHOOSE x \in C6_Defined : \A y \in C6_Defined : QLe(y, x)

\* C6: Norm_ADX is (current - min) / (max - min) * 100 over the defined values
\* of the trailing window when max > min, and 50 when they are all equal; it is
\* 100 when the current ADX is the maximum and 0 when it is the minimum.
C6_MinMaxScaling ==
    Computed =>
        /\ Returned => Rec.Norm_ADX = norm_adx
        /\ IF C6_Defined = {} \/ QEq(C6_Min, C6_Max)
           THEN norm_adx = R(50)
           ELSE LET cur == Last(recent_adx)
                    mn  == C6_Min
                    mx  == C6_Max
                IN  IF ~Finite(cur) THEN norm_adx = NaN
                    ELSE /\ Finite(norm_adx)
                         /\ norm_adx[1] * cur[2] * (mx[1] * mn[2] - mn[1] * mx[2])
                               = 100 * norm_adx[2] * (cur[1] * mn[2] - mn[1] * cur[2]) * mx[2]
                         /\ QEq(cur, mx) => norm_adx = R(100)
                         /\ QEq(cur, mn) => norm_adx = R(0)

\* a window 20, 27, 25: the current ADX is 5/7 of the way up
C6_Witness ==
    /\ Returned
    /\ recent_adx = <<R(20), R(27), R(25)>>
    /\ Rec.Norm_ADX = Norm(500, 7)

(* ---- C7 ---- *)

\* money flow multiplier of one bar with High > Low
C7_Multiplier(bar) ==
    FDiv(FSub(FSub(bar.Close, bar.Low), FSub(bar.High, bar.Close)), FSub(bar.High, bar.Low))

RECURSIVE C7_FlowSum(_, _)
C7_FlowSum(lo, hi) ==
    IF lo > hi THEN R(0)
    ELSE FAdd(C7_FlowSum(lo, hi - 1), FMul(C7_Multiplier(df[hi]), df[hi].Volume))

RECURSIVE C7_VolumeSum(_, _)
C7_VolumeSum(lo, hi) ==
    IF lo > hi THEN R(0) ELSE FAdd(C7_VolumeSum(lo, hi - 1), df[hi].Volume)

\* sum(multiplier * volume) / sum(volume) over the 21 bars ending at bar e
C7_Windowed(e) == FDiv(C7_FlowSum(e - 20, e), C7_VolumeSum(e - 20, e))

\* d > 0.05, d < -0.05 or neither, for d = y - x
C8_Class(x, y) ==
    LET d == QDiff(y, x)
    IN  IF 20 * d[1] > d[2] THEN "Accumulation"
        ELSE IF 20 * d[1] < -d[2] THEN "Distribution"
        ELSE "Flat"

\* C7: the trailing CMF series has exactly N samples, sample k (1-based) is
\* the windowed value over the 21 bars ending at bar Len(df) - N + k, and the
\* CMF trend is classified from the last sample minus the first.
C7_TrailingSeries ==
    (pc = "remark" \/ Returned) =>
        /\ Len(cmf_series) = n_sessions
        /\ \A k \in 1..n_sessions :
              cmf_series[k] = C7_Windowed(Len(df) - n_sessions + k)
        /\ cmf_trend[2] = C8_Class(cmf_series[1], cmf_series[n_sessions])

(* ---- C8 ---- *)

\* the samples calculate_cmf returned a value for
C8_Valid == SelectSeq(cmf_returns, LAMBDA x : x # None)

\* C8: with d = last minus first of the valid trailing CMF samples the CMF
\* trend is Accumulation iff d > 0.05, Distribution iff d < -0.05, Flat
\* otherwise; it is N/A when fewer than 2 valid samples exist or the CMF
\* scalar is absent.
C8_CmfTrend ==
    (pc = "remark" \/ Returned) =>
        cmf_trend[2] = IF cmf_value = None \/ Len(C8_Valid) < 2 THEN "N/A"
                       ELSE C8_Class(C8_Valid[1], Last(C8_Valid))

(* ---- C9 ---- *)

\* C9: with delta = last minus first of the trailing ADX values, the ADX trend
\* is Increasing iff delta > 2, Weakening iff delta < -2 and Flat otherwise;
\* delta exactly 2 or -2 is Flat.
C9_AdxTrend ==
    Computed =>
        LET first   == recent_adx[1]
            last    == Last(recent_adx)
            defined == Finite(first) /\ Finite(last)
            d       == QDiff(last, first)
        IN  /\ Returned => Rec.ADX_Trend = adx_trend
            /\ adx_trend[2] \in {"Increasing", "Weakening", "Flat"}
            /\ (adx_trend[2] = "Increasing") <=> (defined /\ d[1] > 2 * d[2])
            /\ (adx_trend[2] = "Weakening") <=> (defined /\ d[1] < -2 * d[2])

\* delta exactly 2: Flat
C9_Witness ==
    /\ Returned
    /\ recent_adx = <<R(25), R(27)>>
    /\ Rec.ADX_Trend = <<"WHITE", "Flat">>

(* ---- C10 ---- *)

\* C10: for a defined current ADX the Trend is Strong iff ADX > 25, Moderate
\* iff 20 < ADX <= 25 and Weak iff ADX <= 20.
C10_TrendStrength ==
    (Computed /\ Finite(Last(recent_adx))) =>
        LET adx == Last(recent_adx)
        IN  /\ Returned => (Rec.Trend = trend_strength /\ Rec.ADX = adx)
            /\ trend_strength \in {"Strong", "Moderate", "Weak"}
            /\ (trend_strength = "Strong") <=> (adx[1] > 25 * adx[2])
            /\ (trend_strength = "Moderate")
                  <=> (20 * adx[2] < adx[1] /\ adx[1] <= 25 * adx[2])
            /\ (trend_strength = "Weak") <=> (adx[1] <= 20 * adx[2])

\* ADX exactly 25: Moderate
C10_Witness ==
    /\ Returned
    /\ Rec.ADX = R(25)
    /\ Rec.Trend = "Moderate"

(* ---- C11 ---- *)

Period == ind_args[1]

\* every bar has a range and volume, and no close repeats the close before
NonDegenerate ==
    /\ \A i \in 1..Len(df) : FLt(df[i].Low, df[i].High) /\ FGt(df[i].Volume, R(0))
    /\ \A i \in 2..Len(df) : df[i].Close # df[i - 1].Close

\* the minimum length the gates are said to require
C11_Threshold ==
    IF ind_name \in {"rsi", "atr", "adx", "momentum", "roc"} THEN Period + 1
    ELSE IF ind_name = "macd" THEN ind_args[2] + ind_args[3]
    ELSE Period

\* None, a tuple of None, or the (None, "N/A") of calculate_volume_ratio
IsAbsent ==
    IF ind_name = "bollinger" THEN ind_result = <<None, None, None, None, None>>
    ELSE IF ind_name = "macd" THEN ind_result = <<None, None, None>>
    ELSE IF ind_name = "volume_ratio" THEN ind_result[1] = None
    ELSE ind_result = None

\* C11: on a series without degenerate arithmetic each indicator returns
\* absent exactly when the series is shorter than its threshold: period for Bollinger Bands, Stochastic, VWAP, SMA, EMA, CMF
\* and Volume Ratio, period + 1 for RSI, ATR, ADX, Momentum and ROC, and
\* slow + signal for MACD.
C11_LengthGates ==
    (ind_name \notin {"", "obv", "adx_series"} /\ NonDegenerate) => (IsAbsent <=> Len(df) < C11_Threshold)

(* ---- C12 ---- *)

\* a number: rational, or p + q * sqrt(v)
IsNumber(x) == x # None /\ (Len(x) = 3 \/ x[2] > 0)

\* the values of the result at the latest index
C12_Latest ==
    IF ind_name = "bollinger" THEN {Last(ind_result[k]) : k \in 1..5}
    ELSE IF ind_name = "rsi" THEN {Last(ind_result)}
    ELSE {ind_result}

\* C12: a rolling-window indicator called on a non-degenerate series returns
\* absent when the series is shorter than the period, and a defined number at
\* the latest index otherwise.
C12_DefinedFromPeriod ==
    (/\ ind_name \in {"sma", "ema", "stochastic", "vwap", "cmf", "atr", "adx", "rsi",
                      "bollinger"}
     /\ NonDegenerate)
       => IF Len(df) < Period THEN IsAbsent
          ELSE ~IsAbsent /\ \A x \in C12_Latest : IsNumber(x)

(* ---- C13 ---- *)

RECURSIVE C13_Gain(_, _)
\* the sum of the rises of the close over bars lo..hi
C13_Gain(lo, hi) ==
    IF lo > hi THEN R(0)
    ELSE LET rise == FSub(df[hi].Close, df[hi - 1].Close)
         IN  FAdd(C13_Gain(lo, hi - 1), IF rise[1] > 0 THEN rise ELSE R(0))

RECURSIVE C13_Loss(_, _)
\* the sum of the falls of the close over bars lo..hi
C13_Loss(lo, hi) ==
    IF lo > hi THEN R(0)
    ELSE LET fall == FSub(df[hi - 1].Close, df[hi].Close)
         IN  FAdd(C13_Loss(lo, hi - 1), IF fall[1] > 0 THEN fall ELSE R(0))

RECURSIVE C14_PriceVolume(_)
C14_PriceVolume(bars) ==
    IF Len(bars) = 0 THEN R(0)
    ELSE LET b == Head(bars)
         IN  FAdd(FMul(FDiv(FAdd(FAdd(b.High, b.Low), b.Close), R(3)), b.Volume),
                  C14_PriceVolume(Tail(bars)))

RECURSIVE C14_Volume(_)
C14_Volume(bars) ==
    IF Len(bars) = 0 THEN R(0) ELSE FAdd(Head(bars).Volume, C14_Volume(Tail(bars)))

\* other histories in front of the same bars
C14_Histories ==
    {<<>>} \cup {<<b>> : b \in FirstBars}
    \cup UNION {{<<b, MovedBar(b, m)>> : m \in {x \in Moves : b.Low[1] + x.dl >= 0}} : b \in FirstBars}

\* C14: calculate_vwap depends only on the last `lookback` bars: it returns
\* sum(typicalPrice * volume) / sum(volume) over those bars (absent when their
\* volume is 0), and the same for every frame that ends with the same bars.
C14_VwapTrailing ==
    (ind_name = "vwap" /\ Len(df) >= Period) =>
        LET window == SubSeq(df, Len(df) - Period + 1, Len(df))
            volume == C14_Volume(window)
        IN  /\ ind_result = IF volume = R(0) THEN None
                            ELSE FDiv(C14_PriceVolume(window), volume)
            /\ \A h \in C14_Histories : CalculateVwap(h \o window, Period) = ind_result

\* a frame whose earlier bars would change a VWAP over the whole frame
C14_Witness ==
    /\ ind_name = "vwap"
    /\ Len(df) > Period
    /\ ind_result # None
    /\ ind_result # FDiv(C14_PriceVolume(df), C14_Volume(df))

(* ---- C15 ---- *)

\* highs and lows rise strictly from bar to bar, every close within its bar
C15_Rising ==
    /\ \A i \in 2..Len(df) : QLt(df[i - 1].High, df[i].High) /\ QLt(df[i - 1].Low, df[i].Low)
    /\ \A i \in 1..Len(df) : QLe(df[i].Low, df[i].Close) /\ QLe(df[i].Close, df[i].High)

\* C15: on a series whose highs and lows rise strictly from bar to bar, with
\* every close within its bar, +DI is strictly greater than -DI at every
\* index >= period of the DI series; the record's DI spread is > 0 and the
\* DI spread casts a bullish vote.
C15_RisingPlusDi ==
    C15_Rising =>
        /\ (pc = "cmf" /\ n_sessions = MIN_SESSIONS) =>
              LET r == CalculateAdxSeries(df, ADX_PERIOD)
              IN  \A i \in (ADX_PERIOD + 1)..Len(df) :
                     /\ Finite(r[2][i]) /\ Finite(r[3][i])
                     /\ QLt(r[3][i], r[2][i])
        /\ pc \in {"cmf", "remark"} =>
              /\ Finite(current_plus_di) /\ Finite(current_minus_di)
              /\ QLt(current_minus_di, current_plus_di)
              /\ Finite(di_spread) /\ di_spread[1] > 0
        /\ pc = "done" =>
              /\ record # None
              /\ Finite(Rec.DI_Spread) /\ Rec.DI_Spread[1] > 0
              /\ C1_Votes[2] = 1
              /\ Rec.Remark[2] \notin {"Bearish", "Bearish Bias"}

\* a record returned for a rising series, its DI spread positive
C15_Witness ==
    /\ C15_Rising
    /\ Len(df) > ADX_PERIOD
    /\ Returned
    /\ Rec.DI_Spread[1] > 0

(* ---- C16 ---- *)

\* RiseBars bars, closes rising by 1 per bar from RiseStart at volume
\* RiseVolume, highs and lows rising strictly, every close within its bar
C16_Scenario ==
    /\ Len(df) = RiseBars
    /\ \A i \in 1..Len(df) : df[i].Close = R(RiseStart + i - 1) /\ df[i].Volume = R(RiseVolume)
    /\ C15_Rising

\* C16 as stated: for every such series and every N in 2..10 the record's
\* Remark is Bullish or Bullish Bias.
C16_BullishRemark ==
    (C16_Scenario /\ pc = "done") =>
        /\ record # None
        /\ Rec.Remark[2] \in {"Bullish", "Bullish Bias"}

\* C16 amended: for every such series and every N in 2..10 a record is
\* returned; its Remark is Bullish or Bullish Bias unless its CMF trend is
\* Distribution, and Sideway when it is.
C16_BullishUnlessDistribution ==
    (C16_Scenario /\ pc = "done") =>
        /\ record # None
        /\ Rec.CMF_Trend[2] # "Distribution" => Rec.Remark[2] \in {"Bullish", "Bullish Bias"}
        /\ Rec.CMF_Trend[2] = "Distribution" => Rec.Remark[2] = "Sideway"

\* the closes move from the highs to the lows of their bars: Sideway
C16_Witness ==
    /\ C16_Scenario
    /\ Returned
    /\ Rec.CMF_Trend[2] = "Distribution"
    /\ Rec.Remark[2] = "Sideway"

(* ---- C18 ---- *)

\* C18: rank_by_trend_strength does not mutate its input in place: when it
\* returns, every dict held in trend_data has the keys and values it had
\* before the call, and no ranked record is one of those dicts.
C18_InputUntouched ==
    [][(rank_pc = "ready" /\ rank_pc' = "ranked") =>
          /\ \A i \in 1..Len(trend_data) : heap'[trend_data[i]] = heap[trend_data[i]]
          /\ \A j \in 1..Len(ranked') : ~InList(trend_data, ranked'[j])]_vars

(* ---- C19 ---- *)

\* |x| for a finite x
C19_Abs(x) == <<IF x[1] < 0 THEN -x[1] ELSE x[1], x[2]>>

C20_Sign(x) == IF x[1] > 0 THEN 1 ELSE IF x[1] < 0 THEN -1 ELSE 0

C20_AdxVote ==
    IF Rec.ADX_Trend[2] = "Increasing" THEN 1 ELSE IF Rec.ADX_Trend[2] = "Weakening" THEN -1 ELSE 0

C20_CmfVote ==
    IF Rec.CMF_Trend[2] = "Accumulation" THEN 1
    ELSE IF Rec.CMF_Trend[2] = "Distribution" THEN -1 ELSE 0

\* the Remark of three votes in {-1, 0, 1} that sum to t
C20_Remark(t) ==
    IF t >= 2 THEN "Bullish"
    ELSE IF t = 1 THEN "Bullish Bias"
    ELSE IF t = 0 THEN "Sideway"
    ELSE IF t = -1 THEN "Bearish Bias"
    ELSE "Bearish"

\* C20: the Remark depends on the DI spread only through its sign: it is the
\* Remark of the ADX-trend vote, the CMF-trend vote and the sign of the DI
\* spread; any other DI spread of the same sign, whatever its magnitude and
\* display band, gives the same Remark; a DI spread of 0 casts no vote.
C20_RemarkBySign ==
    (Returned /\ Finite(Rec.DI_Spread)) =>
        /\ Rec.Remark[2] = C20_Remark(C20_AdxVote + C20_Sign(Rec.DI_Spread) + C20_CmfVote)
        /\ C20_Sign(Rec.DI_Spread) = 0 => Rec.Remark[2] = C20_Remark(C20_AdxVote + C20_CmfVote)
        /\ \A di \in StageDiValues :
              LET other == FSub(di[1], di[2])
                  sig   == Signals(Rec.ADX_Trend[2], other, Rec.CMF_Trend[2])
              IN  C20_Sign(other) = C20_Sign(Rec.DI_Spread) =>
                     Remark(sig[1], sig[2]) = Rec.Remark

\* a positive DI spread in the lowest display band: it votes bullish
C20_Witness ==
    /\ Returned
    /\ Rec.DI_Spread = R(5)
    /\ Rec.DI_Spread_Display = "WHITE"
    /\ C20_AdxVote = 0
    /\ C20_CmfVote = 0
    /\ Rec.Remark[2] = "Bullish Bias"

(* ---- C21 ---- *)

\* the frame load_sector_data kept for sector i, None when it kept none
C21_Kept(i) ==
    IF \E k \in 1..Len(sector_data) : sector_data[k][1] = SectorNames[i]
    THEN (CHOOSE e \in {sector_data[k] : k \in 1..Len(sector_data)} : e[1] = SectorNames[i])[2]
    ELSE None

\* C21: a downloaded series with all five columns and no incomplete row is
\* usable exactly when it has at least 50 bars: load_sector_data keeps the
\* entity and validate_data accepts the kept frame iff its length is >= 50.
C21_UsableFromFifty ==
    app_pc # "load" =>
        \A i \in 1..NumSectors :
            LET d == downloads[i]
            IN  (~d.raises /\ required_cols \subseteq d.columns /\ DropNa(d.bars) = d.bars) =>
                   ((C21_Kept(i) # None /\ ValidateData(C21_Kept(i))) <=> Len(d.bars) >= 50)

(* ---- C22 ---- *)

\* the last k bars of df
C22_Window(k) == SubSeq(df, Len(df) - k + 1, Len(df))

\* absent, or a finite number
C22_AbsentOrFinite(x) == x = None \/ Finite(x)

C23_ScalarIsSeriesLast ==
    /\ ind_name = "adx" =>
          LET r == CalculateAdxSeries(df, Period)
          IN  IF Len(df) < Period + 1 \/ IsNaN(Last(r[1]))
              THEN ind_result = None
              ELSE ind_result = Last(r[1]) /\ Finite(ind_result)
    /\ ind_name = "adx_series" =>
          IF Len(df) < Period + 1
          THEN ind_result = <<None, None, None>>
          ELSE /\ \A k \in 1..3 : ind_result[k] # None /\ Len(ind_result[k]) = Len(df)
               /\ CalculateAdx(df, Period) =
                     IF IsNaN(Last(ind_result[1])) THEN None ELSE Last(ind_result[1])

\* a frame long enough for a defined ADX
C23_Witness ==
    /\ ind_name = "adx"
    /\ Len(df) >= 2 * Period
    /\ ind_result # None
    /\ ind_result = Last(CalculateAdxSeries(df, Period)[1])

(* ---- C24 ---- *)

\* the bars at which the smoothed +DM and -DM are both 0: no high above and
\* no low below the bar before, for `period` bars up to and including i
C24_ZeroBars(period) ==
    {i \in (period + 1)..Len(df) :
        \A j \in (i - period + 1)..i :
            QLe(df[j].High, df[j - 1].High) /\ QLe(df[j - 1].Low, df[j].Low)}

\* C24: where the smoothed +DM and -DM are both 0, +DI + -DI is 0 or
\* undefined and the ADX is undefined at every bar whose window holds that
\* bar; calculate_adx returns absent when its last window holds one; and
\* calculate_trend_indicators still returns a record for the series.
C24_ZeroDenominator ==
    /\ (pc = "cmf" /\ n_sessions = MIN_SESSIONS) =>
          LET r == CalculateAdxSeries(df, ADX_PERIOD)
          IN  /\ \A i \in C24_ZeroBars(ADX_PERIOD) :
                    /\ FAdd(r[2][i], r[3][i]) \in {R(0), NaN}
                    /\ \A j \in i..(i + ADX_PERIOD - 1) : j <= Len(df) => IsNaN(r[1][j])
              /\ (\E i \in C24_ZeroBars(ADX_PERIOD) : i > Len(df) - ADX_PERIOD)
                    => CalculateAdx(df, ADX_PERIOD) = None
    /\ (pc = "done" /\ Len(df) >= n_sessions + BUFFER /\ C24_ZeroBars(ADX_PERIOD) # {})
          => record # None

\* a record returned for a series whose latest bars did not move
C24_Witness ==
    /\ Returned
    /\ Len(df) \in C24_ZeroBars(ADX_PERIOD)
    /\ IsNaN(Rec.ADX)

(* ---- C25 ---- *)

\* C25: calculate_obv returns absent for fewer than 2 bars; otherwise one
\* value per bar with obv[0] = volume[0] and, for every later bar,
\* obv[i] = obv[i-1] + volume[i] when the close rose, obv[i-1] - volume[i]
\* when it fell, and obv[i-1] when it is unchanged.
C25_ObvScan ==
    ind_name = "obv" =>
        IF Len(df) < 2 THEN ind_result = None
        ELSE /\ ind_result # None
             /\ Len(ind_result) = Len(df)
             /\ QEq(ind_result[1], df[1].Volume)
             /\ \A i \in 2..Len(df) :
                    LET step == QDiff(ind_result[i], ind_result[i - 1])
                        vol  == df[i].Volume
                    IN  /\ Finite(ind_result[i])
                        /\ QLt(df[i - 1].Close, df[i].Close) => step[1] * vol[2] = vol[1] * step[2]
                        /\ QLt(df[i].Close, df[i - 1].Close) => step[1] * vol[2] = -vol[1] * step[2]
                        /\ QEq(df[i].Close, df[i - 1].Close) => step[1] = 0

\* a close that fell on volume: the OBV goes down
C25_Witness ==
    /\ ind_name = "obv"
    /\ Len(df) >= 3
    /\ \E i \in 2..Len(df) :
          /\ QLt(df[i].Close, df[i - 1].Close)
          /\ QLt(ind_result[i], ind_result[i - 1])
    /\ \E i \in 2..Len(df) : QLt(df[i - 1].Close, df[i].Close)

(* ---- C26 ---- *)

\* the sectors of sector_data whose frame has at least 50 rows and, for
\* cycle_n sessions, at least cycle_n + 20
C26_Eligible ==
    {sector_data[k][1] : k \in {j \in 1..Len(sector_data) :
                                    /\ Len(sector_data[j][2].bars) >= 50
                                    /\ Len(sector_data[j][2].bars) >= cycle_n + 20}}

\* C26: rank_by_trend_strength is called only after the loop has visited
\* every entry of sector_data; a finished cycle returns None when no entity
\* yielded a record, and otherwise a table with exactly one row for each
\* entity whose frame passes validate_data and yields a record, ranked
\* 1, 2, ... in row order.
C26_RankAfterAll ==
    /\ (app_pc = "rank" \/ (app_pc = "done" /\ table # None)) =>
          /\ cycle_i = Len(sector_data) + 1
          /\ {heap[trend_data[i]].Sector : i \in 1..Len(trend_data)} = C26_Eligible
          /\ Len(trend_data) = Cardinality(C26_Eligible)
    /\ (app_pc = "loop" /\ Len(trend_data) > 0) => rank_pc # "ranked"
    /\ app_pc = "done" =>
          IF C26_Eligible = {} THEN table = None
          ELSE /\ table # None
               /\ Len(table[1]) = Cardinality(C26_Eligible)
               /\ {table[1][j].Sector : j \in 1..Len(table[1])} = C26_Eligible
               /\ \A j \in 1..Len(table[1]) : table[1][j].Rank = j

\* a cycle over one frame of 49 rows and one of 50: a table of one row
C26_Witness ==
    /\ app_pc = "done"
    /\ Len(sector_data) = 2
    /\ Len(sector_data[1][2].bars) = 49
    /\ Len(sector_data[2][2].bars) = 50
    /\ table # None
    /\ Len(table[1]) = 1
    /\ table[1][1].Sector = sector_data[2][1]

(* ---- C27 ---- *)

\* C27: rank_by_trend_strength returns a permutation of its input records
\* (the empty list for an empty input): each input record exactly once,
\* with Rank 1, 2, ..., n in output order and without the `_score` key; the
\* caller's list keeps its order.
C27_Permutation ==
    rank_pc = "ranked" =>
        /\ Len(ranked) = Len(trend_data)
        /\ \A i \in 1..Len(trend_data) :
              Cardinality({j \in 1..Len(ranked) : ranked[j] = trend_data[i]}) = 1
        /\ \A j \in 1..Len(ranked) :
              /\ heap[ranked[j]].Rank = j
              /\ "_score" \notin DOMAIN heap[ranked[j]]
              /\ heap[ranked[j]].Sector = SectorNames[ranked[j]]
        /\ \A i \in 1..Len(trend_data) : trend_data[i] = i

\* a ranking that moved a record: the last of the input comes first
C27_Witness ==
    /\ rank_pc = "ranked"
    /\ Len(ranked) >= 3
    /\ ranked[1] = trend_data[Len(trend_data)]
    /\ trend_data[1] = 1

(* ---- C29 ---- *)

\* the volumes of the last `period` bars, the current bar included, summed
C29_Sum == SumRange(Col(df, "Volume"), Len(df) - Period + 1, Len(df))

\* the ratio lies in exactly this band
C29_InBand(ratio, class) ==
    \/ class = <<"GREEN", "Very High">> /\ FGt(ratio, R(2))
    \/ class = <<"YELLOW", "High">> /\ FGt(ratio, Norm(3, 2)) /\ FLe(ratio, R(2))
    \/ class = <<"WHITE", "Normal">> /\ FGt(ratio, Norm(4, 5)) /\ FLe(ratio, Norm(3, 2))
    \/ class = <<"ORANGE", "Low">> /\ FGt(ratio, Norm(1, 2)) /\ FLe(ratio, Norm(4, 5))
    \/ class = <<"RED", "Very Low">> /\ FLe(ratio, Norm(1, 2))

C30_Items == [i \in 1..Len(trend_data) |-> heap[trend_data[i]]]

\* how many records carry this remark
C30_Tally(words) == Cardinality({i \in 1..Len(trend_data) : C30_Items[i].Remark[2] = words})

C30_Bias == C30_Tally("Bullish Bias") + C30_Tally("Bearish Bias")

\* C30: for a non-empty list, get_trend_summary counts the Bullish records as
\* bullish, the Bearish ones as bearish, the Sideway ones as neutral and the
\* Bullish Bias and Bearish Bias ones nowhere: bullish_count + bearish_count
\* + neutral_count <= total_sectors, with equality exactly when no record's
\* remark is a Bias.
C30_TalliesSkipBias ==
    (app_pc = "summarised" /\ Len(trend_data) > 0) =>
        /\ summary # None
        /\ summary.total_sectors = Len(trend_data)
        /\ summary.bullish_count = C30_Tally("Bullish")
        /\ summary.bearish_count = C30_Tally("Bearish")
        /\ summary.neutral_count = C30_Tally("Sideway")
        /\ summary.bullish_count + summary.bearish_count + summary.neutral_count
              = summary.total_sectors - C30_Bias
        /\ summary.bullish_count + summary.bearish_count + summary.neutral_count
              <= summary.total_sectors
        /\ (summary.bullish_count + summary.bearish_count + summary.neutral_count
               = summary.total_sectors) <=> C30_Bias = 0

\* a Bullish, a Bullish Bias and a Bearish Bias record: one of three is tallied
C30_Witness ==
    /\ app_pc = "summarised"
    /\ Len(trend_data) = MaxSummaryRecords
    /\ C30_Tally("Bullish Bias") = 1
    /\ C30_Tally("Bearish Bias") = 1
    /\ C30_Tally("Bullish") = 1
    /\ summary.bullish_count = 1
    /\ summary.bearish_count = 0
    /\ summary.neutral_count = 0

====
